---- MODULE Spec2Model ----
(***************************************************************************)
(* A model of the Schulze voting library (package schulze): the pairwise   *)
(* preferences matrix, Vote / Unvote / SetChoices / Compute, and the       *)
(* Voting convenience type.                                                *)
(*                                                                         *)
(* Representation.  A Go []int is a function on 0..len-1, so the flat      *)
(* index arithmetic i*choicesCount+j of the source is kept as written.     *)
(* A []C of choices and the lists of tiers ([][]choiceIndex, Record) are   *)
(* TLA+ sequences; a choiceIndex is 0-based as in the source, so the       *)
(* choice at index i is choices[i+1].  A Ballot (map[C]int) is a function  *)
(* from the set of its keys to ranks; the order in which Go ranges over    *)
(* the map is unspecified and is an explicit input ("order").              *)
(***************************************************************************)
EXTENDS Integers, Sequences, FiniteSets, TLC

\* ---------------------------------------------------------------- bounds

\* The choice values of the model, in the order a new voting lists them.
AllChoices == <<"A", "B", "C">>

\* The universe of choice values of the model.
Choices == {AllChoices[p] : p \in 1..Len(AllChoices)}

\* The number of rank numbers a ballot may use.
MaxRank == 2

\* The rank numbers a ballot may use: not consecutive.
RankNumbers == {2 * r - 1 : r \in 1..MaxRank}

\* The number of calls that may write the preferences in one run.
MaxOps == 3

\* The number of Vote calls in one run.
MaxVotes == 2

\* The number of ballots voted in one run of the SetChoices test.
MaxBallots == 2

\* The cells of the preferences that Compute is tried on are 0..MaxCell.
MaxCell == 2

\* A DuelsIterator is called until it has returned nil MaxNilCalls times.
MaxNilCalls == 2

\* ---------------------------------------------------------------- helpers

\* len(s) of a Go slice modelled as a function on 0..len-1.
len(s) == Cardinality(DOMAIN s)

\* The element of a one-element set: Only({F(x) : x \in {e}}) is F(e) with e
\* evaluated once.
Only(S) == CHOOSE x \in S : TRUE

min(a, b) == IF a < b THEN a ELSE b

max(a, b) == IF a > b THEN a ELSE b

\* All sequences without repetition over the set S.
RECURSIVE DistinctSeqs(_)
DistinctSeqs(S) ==
    {<<>>} \cup UNION {{<<c>> \o s : s \in DistinctSeqs(S \ {c})} : c \in S}

\* The set of elements of a sequence.
Range(s) == {s[p] : p \in 1..Len(s)}

\* All ballots (maps from some keys to ranks) over the key set S.
BallotsOver(S) == UNION {[K -> RankNumbers] : K \in SUBSET S}

\* All orders in which the keys of ballot b may be ranged over.
Orders(b) == {o \in DistinctSeqs(DOMAIN b) : Len(o) = Cardinality(DOMAIN b)}

\* Every ballot over the choice values of the model, with an iteration order.
BallotOrders ==
    UNION {{<<b, o>> : o \in Orders(b)} : b \in BallotsOver(Choices)}

\* ---------------------------------------------------------------- bitset.go

\* newBitset: size/64+1 zeroed words.
newBitset(size) == [w \in 0..(size \div 64) |-> 0]

\* bitSet.isSet: s[i/64] & (1 << (i%64)) != 0.
isSet(s, i) == (s[i \div 64] \div (2 ^ (i % 64))) % 2 = 1

\* bitSet.set: s[i/64] |= 1 << (i%64).
set(s, i) ==
    IF isSet(s, i) THEN s
    ELSE [s EXCEPT ![i \div 64] = @ + 2 ^ (i % 64)]

\* ---------------------------------------------------------------- schulze.go

\* NewPreferences: make([]int, choicesLength*choicesLength).
NewPreferences(choicesLength) ==
    [k \in 0..(choicesLength * choicesLength - 1) |-> 0]

\* A faulty getChoiceIndex: the index of the last position that holds the
\* choice.
getChoiceIndexLast(choices, choice) ==
    IF \E p \in 1..Len(choices) : choices[p] = choice
    THEN (CHOOSE p \in 1..Len(choices) :
              /\ choices[p] = choice
              /\ \A q \in (p + 1)..Len(choices) : choices[q] # choice) - 1
    ELSE -1

\* getChoiceIndex: the first index holding the choice, or -1.
getChoiceIndex(choices, choice) ==
    IF \E p \in 1..Len(choices) : choices[p] = choice
    THEN (CHOOSE p \in 1..Len(choices) :
              /\ choices[p] = choice
              /\ \A q \in 1..(p - 1) : choices[q] # choice) - 1
    ELSE -1

\* The nil error, and UnknownChoiceError{Choice: c}.
NoError == <<>>

UnknownChoiceError(c) == <<c>>

\* A faulty sort.Slice(rankNumbers, >): the rank numbers in descending order.
RECURSIVE SortDescending(_)
SortDescending(S) ==
    IF S = {} THEN <<>>
    ELSE LET m == CHOOSE x \in S : \A y \in S : x >= y
         IN <<m>> \o SortDescending(S \ {m})

\* sort.Slice(rankNumbers, <): the rank numbers in ascending order.
RECURSIVE SortAscending(_)
SortAscending(S) ==
    IF S = {} THEN <<>>
    ELSE LET m == CHOOSE x \in S : \A y \in S : x <= y
         IN <<m>> \o SortAscending(S \ {m})

\* The loop `for choice, rank := range b` of ballotRanks, taken in the
\* iteration order `order` from position p on: groups is the map
\* ballotRanks (rank -> list of indexes), bits the bitset rankedChoices.
RECURSIVE rangeBallot(_, _, _, _, _, _, _)
rangeBallot(choices, b, order, p, groups, bits, hasUnrankedChoices) ==
    IF p > Len(order)
    THEN [groups |-> groups, bits |-> bits, err |-> NoError]
    ELSE LET choice == order[p]
             rank == b[choice]
             index == getChoiceIndex(choices, choice)
         IN IF index < 0
            THEN [groups |-> groups, bits |-> bits,
                  err |-> UnknownChoiceError(choice)]
            ELSE rangeBallot(choices, b, order, p + 1,
                     [r \in DOMAIN groups \cup {rank} |->
                         IF r = rank
                         THEN (IF r \in DOMAIN groups THEN groups[r] ELSE <<>>)
                                  \o <<index>>
                         ELSE groups[r]],
                     IF hasUnrankedChoices THEN set(bits, index) ELSE bits,
                     hasUnrankedChoices)

\* The indexes i in from..choicesLen-1 not set in bits, ascending.
RECURSIVE unrankedFrom(_, _, _)
unrankedFrom(bits, i, choicesLen) ==
    IF i >= choicesLen THEN <<>>
    ELSE (IF isSet(bits, i) THEN <<>> ELSE <<i>>)
             \o unrankedFrom(bits, i + 1, choicesLen)

\* A faulty end of ballotRanks: the error of the loop is dropped and the tiers
\* collected before the unknown choice are returned.
ballotRanksOfDroppedError(looped, choicesLen, hasUnrankedChoices) ==
    LET rankNumbers == SortAscending(DOMAIN looped.groups)
        ranked == [n \in 1..Len(rankNumbers) |-> looped.groups[rankNumbers[n]]]
        unranked == unrankedFrom(looped.bits, 0, choicesLen)
    IN [ranks |-> IF hasUnrankedChoices /\ Len(unranked) > 0
                  THEN Append(ranked, unranked)
                  ELSE ranked,
        choicesLen |-> choicesLen,
        hasUnrankedChoices |-> hasUnrankedChoices,
        err |-> NoError]

\* The end of ballotRanks, after the loop over the ballot: the rank numbers
\* are sorted, their tiers appended in that order, then the unranked tier.
ballotRanksOf(looped, choicesLen, hasUnrankedChoices) ==
    LET rankNumbers == SortAscending(DOMAIN looped.groups)
        ranked == [n \in 1..Len(rankNumbers) |-> looped.groups[rankNumbers[n]]]
        unranked == unrankedFrom(looped.bits, 0, choicesLen)
    IN IF looped.err # NoError
       THEN [ranks |-> <<>>, choicesLen |-> 0,
             hasUnrankedChoices |-> FALSE, err |-> looped.err]
       ELSE [ranks |-> IF hasUnrankedChoices /\ Len(unranked) > 0
                       THEN Append(ranked, unranked)
                       ELSE ranked,
             choicesLen |-> choicesLen,
             hasUnrankedChoices |-> hasUnrankedChoices,
             err |-> NoError]

\* ballotRanks: the tiers of choice indexes of ballot b, lowest rank number
\* first, followed by the tier of the indexes the ballot does not rank.
ballotRanks(choices, b, order) ==
    Only({ballotRanksOf(looped, Len(choices), Cardinality(DOMAIN b) # Len(choices)) :
          looped \in {rangeBallot(choices, b, order, 1, <<>>,
                                  newBitset(Len(choices)),
                                  Cardinality(DOMAIN b) # Len(choices))}})

\* The positions <<tier, place>> of a list of tiers.
Places(tiers) ==
    UNION {{<<t, p>> : p \in 1..Len(tiers[t])} : t \in 1..Len(tiers)}

\* A faulty voteWrites: the loops also pair the places of one tier, so that
\* choices sharing a rank count against each other.
voteWritesWithinTier(ranks, choicesCount) ==
    [x \in {y \in Places(ranks) \X Places(ranks) :
               y[1][1] < y[2][1] \/ (y[1][1] = y[2][1] /\ y[1][2] < y[2][2])} |->
        ranks[x[1][1]][x[1][2]] * choicesCount + ranks[x[2][1]][x[2][2]]]

\* The executions of `preferences[i*choicesCount+j] += 1` in the loops of
\* Vote over the tiers, one for every place of a tier and every place of a
\* later tier: the cell each writes.
voteWrites(ranks, choicesCount) ==
    [x \in {y \in Places(ranks) \X Places(ranks) : y[1][1] < y[2][1]} |->
        ranks[x[1][1]][x[1][2]] * choicesCount + ranks[x[2][1]][x[2][2]]]

\* A faulty diagonal of Vote: the choices of the last tier are left out even
\* when the ballot ranks every choice.
voteDiagonalWritesBeforeLastTier(ranks, choicesCount, hasUnrankedChoices) ==
    [x \in {y \in Places(ranks) : y[1] <= Len(ranks) - 1} |->
        ranks[x[1]][x[2]] * choicesCount + ranks[x[1]][x[2]]]

\* The executions of `preferences[i*choicesCount+i] += 1` of the diagonal
\* bookkeeping of Vote and the cell each writes: one for every place of
\* ranks[:l-1] when the ballot leaves choices unranked, else one for every
\* index.
voteDiagonalWrites(ranks, choicesCount, hasUnrankedChoices) ==
    IF hasUnrankedChoices
    THEN [x \in {y \in Places(ranks) : y[1] <= Len(ranks) - 1} |->
             ranks[x[1]][x[2]] * choicesCount + ranks[x[1]][x[2]]]
    ELSE [i \in 0..(choicesCount - 1) |-> i * choicesCount + i]

\* How many of the executions in writes write cell k.
writesTo(writes, k) == Cardinality({x \in DOMAIN writes : writes[x] = k})

\* The Record of a list of tiers: choices[index] for every index.
recordOf(choices, ranks) ==
    [t \in 1..Len(ranks) |->
        [p \in 1..Len(ranks[t]) |-> choices[ranks[t][p] + 1]]]

\* A faulty Vote: the diagonal cell of a choice ranked above the last tier is
\* set to the cell of that choice in the column of the first choice of the
\* last tier instead of being counted up.
voteRanksDiagonalSet(preferences, choices, br) ==
    IF br.err # NoError
    THEN [preferences |-> preferences, record |-> <<>>, err |-> br.err]
    ELSE Only({[preferences |->
                   [k \in DOMAIN preferences |->
                       IF /\ Len(br.ranks) >= 2
                          /\ k \div br.choicesLen = k % br.choicesLen
                          /\ \E x \in Places(br.ranks) :
                                 /\ x[1] < Len(br.ranks)
                                 /\ br.ranks[x[1]][x[2]] = k \div br.choicesLen
                       THEN preferences[(k \div br.choicesLen) * br.choicesLen
                                        + br.ranks[Len(br.ranks)][1]]
                            + writesTo(writes, (k \div br.choicesLen) * br.choicesLen
                                               + br.ranks[Len(br.ranks)][1])
                       ELSE preferences[k] + writesTo(writes, k)],
                record |-> recordOf(choices, br.ranks),
                err |-> NoError] :
               writes \in {voteWrites(br.ranks, br.choicesLen)}})

\* Vote after ballotRanks returned br: nothing is written when br holds an
\* error.
voteRanks(preferences, choices, br) ==
    IF br.err # NoError
    THEN [preferences |-> preferences, record |-> <<>>, err |-> br.err]
    ELSE Only({[preferences |->
                   [k \in DOMAIN preferences |->
                       preferences[k] + writesTo(writes, k)
                       + writesTo(diagonal, k)],
                record |-> recordOf(choices, br.ranks),
                err |-> NoError] :
               writes \in {voteWrites(br.ranks, br.choicesLen)},
               diagonal \in {voteDiagonalWrites(br.ranks, br.choicesLen,
                                                br.hasUnrankedChoices)}})

\* A faulty Vote: the unknown choice is found only after the known choices
\* of the ballot were voted.
VoteKnownChoicesFirst(preferences, choices, b, order) ==
    LET br == ballotRanks(choices, b, order)
        known == {c \in DOMAIN b : getChoiceIndex(choices, c) >= 0}
    IN IF br.err = NoError THEN voteRanks(preferences, choices, br)
       ELSE [preferences |->
                voteRanks(preferences, choices,
                          ballotRanks(choices, [c \in known |-> b[c]],
                                      SelectSeq(order, LAMBDA c : c \in known))
                         ).preferences,
             record |-> <<>>,
             err |-> br.err]

\* Vote: the preferences after the call, the Record returned and the error.
Vote(preferences, choices, b, order) ==
    Only({voteRanks(preferences, choices, br) :
          br \in {ballotRanks(choices, b, order)}})

\* The cells Vote writes or reads: one outside the slice is a run-time panic.
voteCells(choices, b, order) ==
    Only({IF br.err # NoError THEN {}
          ELSE Only({{writes[x] : x \in DOMAIN writes}
                     \cup {diagonal[x] : x \in DOMAIN diagonal} :
                     writes \in {voteWrites(br.ranks, br.choicesLen)},
                     diagonal \in {voteDiagonalWrites(br.ranks, br.choicesLen,
                                                      br.hasUnrankedChoices)}}) :
          br \in {ballotRanks(choices, b, order)}})

\* getChoiceIndex of the choice at every place of the Record.
recordIndexes(choices, r) ==
    [x \in Places(r) |-> getChoiceIndex(choices, r[x[1]][x[2]])]

\* A faulty first loop of Unvote: only the votes of a tier over the next tier
\* are taken back.
unvoteWritesNextTier(index, choicesCount) ==
    [x \in {y \in (DOMAIN index) \X (DOMAIN index) :
               /\ y[1][1] + 1 = y[2][1]
               /\ index[y[1]] >= 0
               /\ index[y[2]] >= 0} |->
        index[x[1]] * choicesCount + index[x[2]]]

\* A faulty first loop of Unvote: a choice that is not found is not skipped.
unvoteWritesNoSkip(index, choicesCount) ==
    [x \in {y \in (DOMAIN index) \X (DOMAIN index) : y[1][1] < y[2][1]} |->
        index[x[1]] * choicesCount + index[x[2]]]

\* The executions of `preferences[i*choicesCount+j] -= 1` in the first loop
\* of Unvote and the cell each writes: one for every place of a tier and
\* every place of a later tier whose choices are both found.
unvoteWrites(index, choicesCount) ==
    [x \in {y \in (DOMAIN index) \X (DOMAIN index) :
               /\ y[1][1] < y[2][1]
               /\ index[y[1]] >= 0
               /\ index[y[2]] >= 0} |->
        index[x[1]] * choicesCount + index[x[2]]]

\* The executions of `preferences[i*choicesCount+i] -= 1` in the loop over
\* r[:recordLength-1] and the cell each writes.
unvoteDiagonalWrites(index, choicesCount, recordLength) ==
    [x \in {y \in DOMAIN index : y[1] <= recordLength - 1 /\ index[y] >= 0} |->
        index[x] * choicesCount + index[x]]

\* A bitset with the bits of the set S of indexes set.
RECURSIVE setAll(_, _)
setAll(bits, S) ==
    IF S = {} THEN bits
    ELSE LET i == CHOOSE x \in S : TRUE
         IN setAll(set(bits, i), S \ {i})

\* rankedChoices of Unvote: the found indexes of the tiers before the last.
unvoteRanked(index, choicesCount, recordLength) ==
    setAll(newBitset(choicesCount),
           {index[x] : x \in {y \in DOMAIN index : y[1] <= recordLength - 1}}
               \ {-1})

\* knownChoices of Unvote: the found indexes of every tier.
unvoteKnown(index, choicesCount) ==
    setAll(newBitset(choicesCount), {index[x] : x \in DOMAIN index} \ {-1})

\* The executions of `preferences[i*choicesCount+j] -= 1` in the last loop of
\* Unvote and the cell each writes: i is ranked by the Record and j is not
\* known to it.
unvoteAddedWrites(ranked, known, choicesCount) ==
    [x \in {y \in (0..(choicesCount - 1)) \X (0..(choicesCount - 1)) :
               isSet(ranked, y[1]) /\ ~isSet(known, y[2])} |->
        x[1] * choicesCount + x[2]]

\* The three groups of writes of Unvote for a Record that is not empty.
unvoteAllWrites(choices, r) ==
    Only({Only({<<unvoteWrites(index, Len(choices)),
                  unvoteDiagonalWrites(index, Len(choices), Len(r)),
                  unvoteAddedWrites(ranked, known, Len(choices))>> :
                ranked \in {unvoteRanked(index, Len(choices), Len(r))},
                known \in {unvoteKnown(index, Len(choices))}}) :
          index \in {recordIndexes(choices, r)}})

\* Unvote: the preferences after the call and the error (always nil).
Unvote(preferences, choices, r) ==
    IF Len(r) = 0
    THEN [preferences |-> preferences, err |-> NoError]
    ELSE Only({[preferences |->
                   [k \in DOMAIN preferences |->
                       preferences[k] - writesTo(w[1], k) - writesTo(w[2], k)
                       - writesTo(w[3], k)],
                err |-> NoError] :
               w \in {unvoteAllWrites(choices, r)}})

\* The cells Unvote writes.
unvoteCells(choices, r) ==
    IF Len(r) = 0 THEN {}
    ELSE Only({UNION {{w[g][x] : x \in DOMAIN w[g]} : g \in 1..3} :
               w \in {unvoteAllWrites(choices, r)}})

\* A faulty SetChoices: a cell whose row and column are below the current
\* length is copied from the same place, whatever choices are there now.
setChoicesSourceSamePlace(current, updated, iUpdated, j) ==
    LET currentLength == Len(current)
        iCurrent == getChoiceIndex(current, updated[iUpdated + 1])
        jCurrent == getChoiceIndex(current, updated[j + 1])
    IN IF iUpdated < currentLength /\ j < currentLength
       THEN iUpdated * currentLength + j
       ELSE IF iCurrent >= 0
            THEN IF jCurrent >= 0
                 THEN iCurrent * currentLength + jCurrent
                 ELSE iCurrent * currentLength + iCurrent
            ELSE -1

\* A faulty SetChoices: the column of a moved choice is not looked up, the
\* cell is read from column j of the current preferences.
setChoicesSourceRowOnly(current, updated, iUpdated, j) ==
    LET currentLength == Len(current)
        iCurrent == getChoiceIndex(current, updated[iUpdated + 1])
        jCurrent == getChoiceIndex(current, updated[j + 1])
    IN IF iCurrent >= 0
       THEN IF jCurrent >= 0
            THEN iCurrent * currentLength + (IF j < currentLength THEN j ELSE jCurrent)
            ELSE iCurrent * currentLength + iCurrent
       ELSE -1

\* A faulty SetChoices: the cell of a moved pair of choices is read from the
\* opposite cell of the current preferences.
setChoicesSourceTransposed(current, updated, iUpdated, j) ==
    LET currentLength == Len(current)
        iCurrent == getChoiceIndex(current, updated[iUpdated + 1])
        jCurrent == getChoiceIndex(current, updated[j + 1])
    IN IF /\ iUpdated < currentLength
          /\ updated[iUpdated + 1] = current[iUpdated + 1]
          /\ j < currentLength
          /\ updated[j + 1] = current[j + 1]
       THEN iUpdated * currentLength + j
       ELSE IF iCurrent >= 0
            THEN IF jCurrent >= 0
                 THEN jCurrent * currentLength + iCurrent
                 ELSE iCurrent * currentLength + iCurrent
            ELSE -1

\* A faulty SetChoices: the row of an added choice is filled like its
\* column, with the diagonal cell of the other choice.
setChoicesSourceNewRow(current, updated, iUpdated, j) ==
    LET currentLength == Len(current)
        iCurrent == getChoiceIndex(current, updated[iUpdated + 1])
        jCurrent == getChoiceIndex(current, updated[j + 1])
    IN IF iCurrent >= 0
       THEN IF jCurrent >= 0
            THEN iCurrent * currentLength + jCurrent
            ELSE iCurrent * currentLength + iCurrent
       ELSE IF jCurrent >= 0
            THEN jCurrent * currentLength + jCurrent
            ELSE -1

\* A faulty SetChoices: the column of an added choice is left zero.
setChoicesSourceNoColumn(current, updated, iUpdated, j) ==
    LET currentLength == Len(current)
        iCurrent == getChoiceIndex(current, updated[iUpdated + 1])
        jCurrent == getChoiceIndex(current, updated[j + 1])
    IN IF iCurrent >= 0 /\ jCurrent >= 0
       THEN iCurrent * currentLength + jCurrent
       ELSE -1

\* The cell of the current preferences that SetChoices reads for the cell
\* (iUpdated, j) of the updated preferences, or -1 when it leaves the zero.
setChoicesSource(current, updated, iUpdated, j) ==
    LET currentLength == Len(current)
        iCurrent == getChoiceIndex(current, updated[iUpdated + 1])
        jCurrent == getChoiceIndex(current, updated[j + 1])
    IN IF /\ iUpdated < currentLength
          /\ updated[iUpdated + 1] = current[iUpdated + 1]
          /\ j < currentLength
          /\ updated[j + 1] = current[j + 1]
       THEN iUpdated * currentLength + j
       ELSE IF iCurrent >= 0
            THEN IF jCurrent >= 0
                 THEN iCurrent * currentLength + jCurrent
                 ELSE iCurrent * currentLength + iCurrent
            ELSE -1

\* SetChoices: the freshly allocated preferences for the updated choices.
SetChoices(preferences, current, updated) ==
    LET updatedLength == Len(updated)
    IN [k \in DOMAIN NewPreferences(updatedLength) |->
           LET src == setChoicesSource(current, updated,
                                       k \div updatedLength, k % updatedLength)
           IN IF src >= 0 THEN preferences[src] ELSE 0]

\* The cells of the current preferences SetChoices reads.
setChoicesCells(current, updated) ==
    {setChoicesSource(current, updated, x[1], x[2]) :
        x \in (0..(Len(updated) - 1)) \X (0..(Len(updated) - 1))} \ {-1}

\* A faulty first loop of calculatePairwiseStrengths: the strength of a won
\* duel is the margin instead of the winning preference.
directStrengthsMargin(choicesCount, preferences) ==
    [ij \in 0..(choicesCount * choicesCount - 1) |->
        LET i == ij \div choicesCount
            j == ij % choicesCount
            c == preferences[ij]
        IN IF c > preferences[j * choicesCount + i]
           THEN c - preferences[j * choicesCount + i] ELSE 0]

\* A faulty first pass: the preference of i over j is compared with the
\* diagonal cell of j instead of the preference of j over i.
directStrengthsAgainstDiagonal(choicesCount, preferences) ==
    [ij \in 0..(choicesCount * choicesCount - 1) |->
        LET j == ij % choicesCount
            c == preferences[ij]
        IN IF c > preferences[j * choicesCount + j] THEN c ELSE 0]

\* The first loops of calculatePairwiseStrengths: strengths[ij] is
\* preferences[ij] where it is greater than preferences[ji], else 0.
directStrengths(choicesCount, preferences) ==
    [ij \in 0..(choicesCount * choicesCount - 1) |->
        LET i == ij \div choicesCount
            j == ij % choicesCount
            c == preferences[ij]
        IN IF c > preferences[j * choicesCount + i] THEN c ELSE 0]

\* calculatePairwiseStrengths of the earlier revision (README.md): the first
\* pass skips i = j.
directStrengthsGuarded(choicesCount, matrix) ==
    [ij \in 0..(choicesCount * choicesCount - 1) |->
        LET i == ij \div choicesCount
            j == ij % choicesCount
        IN IF i # j /\ matrix[ij] > matrix[j * choicesCount + i]
           THEN matrix[ij] ELSE 0]

\* Its loop over k: k = i and k = j are skipped, and strengths[j][i] is read
\* anew for every k.
RECURSIVE relaxKGuarded(_, _, _, _, _)
relaxKGuarded(strengths, choicesCount, i, j, k) ==
    IF k >= choicesCount THEN strengths
    ELSE Only({relaxKGuarded(relaxed, choicesCount, i, j, k + 1) :
               relaxed \in {IF i # k /\ j # k
                            THEN [strengths EXCEPT ![j * choicesCount + k] =
                                     max(@, min(strengths[j * choicesCount + i],
                                                strengths[i * choicesCount + k]))]
                            ELSE strengths}})

\* Its loop over j: j = i is skipped.
RECURSIVE relaxJGuarded(_, _, _, _)
relaxJGuarded(strengths, choicesCount, i, j) ==
    IF j >= choicesCount THEN strengths
    ELSE Only({relaxJGuarded(relaxed, choicesCount, i, j + 1) :
               relaxed \in {IF i # j
                            THEN relaxKGuarded(strengths, choicesCount, i, j, 0)
                            ELSE strengths}})

\* Its outer loop over i.
RECURSIVE relaxIGuarded(_, _, _)
relaxIGuarded(strengths, choicesCount, i) ==
    IF i >= choicesCount THEN strengths
    ELSE Only({relaxIGuarded(relaxed, choicesCount, i + 1) :
               relaxed \in {relaxJGuarded(strengths, choicesCount, i, 0)}})

\* The strengths the earlier revision calculates for a matrix.
calculatePairwiseStrengthsGuarded(choicesCount, matrix) ==
    relaxIGuarded(directStrengthsGuarded(choicesCount, matrix), choicesCount, 0)

\* A faulty loop over k: the strength of k over i is read where the strength
\* of i over k belongs.
RECURSIVE relaxKTransposed(_, _, _, _, _, _)
relaxKTransposed(strengths, choicesCount, i, j, jip, k) ==
    IF k >= choicesCount THEN strengths
    ELSE Only({relaxKTransposed(relaxed, choicesCount, i, j, jip, k + 1) :
               relaxed \in {[strengths EXCEPT ![j * choicesCount + k] =
                                max(@, min(jip, strengths[k * choicesCount + i]))]}})

\* The loop over k: strengths[jk] = max(strengths[jk], min(jip, strengths[ik])).
RECURSIVE relaxK(_, _, _, _, _, _)
relaxK(strengths, choicesCount, i, j, jip, k) ==
    IF k >= choicesCount THEN strengths
    ELSE Only({relaxK(relaxed, choicesCount, i, j, jip, k + 1) :
               relaxed \in {[strengths EXCEPT ![j * choicesCount + k] =
                                max(@, min(jip, strengths[i * choicesCount + k]))]}})

\* The loop over j: jip = strengths[ji] is read once, before the loop over k.
RECURSIVE relaxJ(_, _, _, _)
relaxJ(strengths, choicesCount, i, j) ==
    IF j >= choicesCount THEN strengths
    ELSE Only({relaxJ(relaxed, choicesCount, i, j + 1) :
               relaxed \in {Only({relaxK(strengths, choicesCount, i, j, jip, 0) :
                                  jip \in {strengths[j * choicesCount + i]}})}})

\* A faulty outer loop: it stops before the last choice.
RECURSIVE relaxIBeforeLast(_, _, _)
relaxIBeforeLast(strengths, choicesCount, i) ==
    IF i >= choicesCount - 1 THEN strengths
    ELSE Only({relaxIBeforeLast(relaxed, choicesCount, i + 1) :
               relaxed \in {relaxJ(strengths, choicesCount, i, 0)}})

\* The outer loop over i.
RECURSIVE relaxI(_, _, _)
relaxI(strengths, choicesCount, i) ==
    IF i >= choicesCount THEN strengths
    ELSE Only({relaxI(relaxed, choicesCount, i + 1) :
               relaxed \in {relaxJ(strengths, choicesCount, i, 0)}})

\* calculatePairwiseStrengths: nil for no choices.
calculatePairwiseStrengths(choices, preferences) ==
    LET choicesCount == Len(choices)
    IN IF choicesCount = 0 THEN <<>>
       ELSE relaxI(directStrengths(choicesCount, preferences), choicesCount, 0)

\* The sum of f[x] over the finite set S.
RECURSIVE Sum(_, _)
Sum(f, S) ==
    IF S = {} THEN 0
    ELSE LET x == CHOOSE y \in S : TRUE
         IN f[x] + Sum(f, S \ {x})

\* A faulty loop over j of calculateResults: a drawn duel counts as won.
resultOfDrawsWon(choices, strengths, i) ==
    LET choicesCount == Len(choices)
        won == {j \in 0..(choicesCount - 1) :
                   /\ i # j
                   /\ strengths[i * choicesCount + j]
                          >= strengths[j * choicesCount + i]}
    IN [Choice |-> choices[i + 1],
        Index |-> i,
        Wins |-> Cardinality(won),
        Strength |-> Sum([j \in won |-> strengths[i * choicesCount + j]], won),
        Advantage |-> Sum([j \in won |-> strengths[i * choicesCount + j]
                                         - strengths[j * choicesCount + i]], won)]

\* The Result of choice index i: the loop over j of calculateResults.
resultOf(choices, strengths, i) ==
    LET choicesCount == Len(choices)
        won == {j \in 0..(choicesCount - 1) :
                   /\ i # j
                   /\ strengths[i * choicesCount + j]
                          > strengths[j * choicesCount + i]}
    IN [Choice |-> choices[i + 1],
        Index |-> i,
        Wins |-> Cardinality(won),
        Strength |-> Sum([j \in won |-> strengths[i * choicesCount + j]], won),
        Advantage |-> Sum([j \in won |-> strengths[i * choicesCount + j]
                                         - strengths[j * choicesCount + i]], won)]

\* A faulty less function: of equal results the greater Index comes first.
resultLessGreaterIndex(a, b) ==
    IF a.Wins # b.Wins THEN a.Wins > b.Wins
    ELSE IF a.Strength # b.Strength THEN a.Strength > b.Strength
    ELSE a.Index > b.Index

\* A faulty less function: the fewest Wins come first.
resultLessFewestWins(a, b) ==
    IF a.Wins # b.Wins THEN a.Wins < b.Wins
    ELSE IF a.Strength # b.Strength THEN a.Strength > b.Strength
    ELSE a.Index < b.Index

\* A faulty less function: Strength is not compared.
resultLessWinsOnly(a, b) ==
    IF a.Wins # b.Wins THEN a.Wins > b.Wins
    ELSE a.Index < b.Index

\* The less function given to sort.Slice in calculateResults.
resultLess(a, b) ==
    IF a.Wins # b.Wins THEN a.Wins > b.Wins
    ELSE IF a.Strength # b.Strength THEN a.Strength > b.Strength
    ELSE a.Index < b.Index

\* x put into the sorted sequence s before the first element it is less than.
RECURSIVE insertResult(_, _)
insertResult(s, x) ==
    IF Len(s) = 0 THEN <<x>>
    ELSE IF resultLess(x, Head(s)) THEN <<x>> \o s
    ELSE <<Head(s)>> \o insertResult(Tail(s), x)

\* sort.Slice(results, less): the elements of s from place p on, put in order
\* into sorted.
RECURSIVE sortResults(_, _, _)
sortResults(s, p, sorted) ==
    IF p > Len(s) THEN sorted
    ELSE sortResults(s, p + 1, insertResult(sorted, s[p]))

\* A faulty calculateResults: the tie flag compares Strength as well as Wins.
calculateResultsTieByStrength(choices, strengths) ==
    Only({[results |-> sorted,
           tie |-> IF Len(sorted) >= 2
                   THEN /\ sorted[1].Wins = sorted[2].Wins
                        /\ sorted[1].Strength = sorted[2].Strength
                   ELSE FALSE] :
          sorted \in {sortResults([p \in 1..Len(choices) |->
                                      resultOf(choices, strengths, p - 1)],
                                  1, <<>>)}})

\* calculateResults: the sorted results and the tie flag.
calculateResults(choices, strengths) ==
    Only({[results |-> sorted,
           tie |-> IF Len(sorted) >= 2 THEN sorted[1].Wins = sorted[2].Wins
                   ELSE FALSE] :
          sorted \in {sortResults([p \in 1..Len(choices) |->
                                      resultOf(choices, strengths, p - 1)],
                                  1, <<>>)}})

\* A faulty Compute: the strengths are calculated in the slice the caller
\* passed as preferences instead of a slice of their own.
ComputeInPlace(preferences, choices) ==
    Only({Only({[results |-> r.results, tie |-> r.tie, strengths |-> s,
                 preferences |-> s] :
                r \in {calculateResults(choices, s)}}) :
          s \in {calculatePairwiseStrengths(choices, preferences)}})

\* Compute: results, tie, and the strengths the duels iterator closes over;
\* preferences is what the slice the caller passed holds after the call,
\* which is what it held before: the strengths are written to a slice made
\* by calculatePairwiseStrengths.
Compute(preferences, choices) ==
    Only({Only({[results |-> r.results, tie |-> r.tie, strengths |-> s,
                 preferences |-> preferences] :
                r \in {calculateResults(choices, s)}}) :
          s \in {calculatePairwiseStrengths(choices, preferences)}})

\* The nil *Duel.
NilDuel == <<>>

\* newDuelsIterator: the variables the returned closure holds.
newDuelsIterator(choices, strengths) ==
    [choices |-> choices, strengths |-> strengths,
     choiceIndexRow |-> 0, choiceIndexColumn |-> 1]

\* A faulty DuelsIterator: at the end of a row the column starts again at
\* the row that was finished plus one.
callDuelsIteratorSameRow(d) ==
    LET choicesCount == Len(d.choices)
        column == d.choiceIndexColumn + 1
    IN IF d.choiceIndexRow >= choicesCount \/ d.choiceIndexColumn >= choicesCount
       THEN [duel |-> NilDuel, iterator |-> d]
       ELSE [duel |->
                [Left |->
                    [Choice |-> d.choices[d.choiceIndexRow + 1],
                     Index |-> d.choiceIndexRow,
                     Strength |-> d.strengths[d.choiceIndexRow * choicesCount
                                              + d.choiceIndexColumn]],
                 Right |->
                    [Choice |-> d.choices[d.choiceIndexColumn + 1],
                     Index |-> d.choiceIndexColumn,
                     Strength |-> d.strengths[d.choiceIndexColumn * choicesCount
                                              + d.choiceIndexRow]]],
             iterator |->
                IF column >= choicesCount
                THEN [d EXCEPT !.choiceIndexRow = @ + 1,
                               !.choiceIndexColumn = d.choiceIndexRow + 1]
                ELSE [d EXCEPT !.choiceIndexColumn = column]]

\* One call of a DuelsIterator d: the *Duel returned and the closure after
\* the deferred function has run.
callDuelsIterator(d) ==
    LET choicesCount == Len(d.choices)
        column == d.choiceIndexColumn + 1
    IN IF d.choiceIndexRow >= choicesCount \/ d.choiceIndexColumn >= choicesCount
       THEN [duel |-> NilDuel, iterator |-> d]
       ELSE [duel |->
                [Left |->
                    [Choice |-> d.choices[d.choiceIndexRow + 1],
                     Index |-> d.choiceIndexRow,
                     Strength |-> d.strengths[d.choiceIndexRow * choicesCount
                                              + d.choiceIndexColumn]],
                 Right |->
                    [Choice |-> d.choices[d.choiceIndexColumn + 1],
                     Index |-> d.choiceIndexColumn,
                     Strength |-> d.strengths[d.choiceIndexColumn * choicesCount
                                              + d.choiceIndexRow]]],
             iterator |->
                IF column >= choicesCount
                THEN [d EXCEPT !.choiceIndexRow = @ + 1,
                               !.choiceIndexColumn = d.choiceIndexRow + 2]
                ELSE [d EXCEPT !.choiceIndexColumn = column]]

\* The nil *ChoiceStrength.
NilChoiceStrength == <<>>

\* A faulty Outcome: the left side wins when the strengths are equal.
OutcomeLeftOnEqual(d) ==
    IF d.Left.Strength >= d.Right.Strength
    THEN [winner |-> d.Left, defeated |-> d.Right]
    ELSE [winner |-> d.Right, defeated |-> d.Left]

\* Duel.Outcome: the winner and the defeated, both nil for a tie.
Outcome(d) ==
    IF d.Left.Strength > d.Right.Strength
    THEN [winner |-> d.Left, defeated |-> d.Right]
    ELSE IF d.Right.Strength > d.Left.Strength
         THEN [winner |-> d.Right, defeated |-> d.Left]
         ELSE [winner |-> NilChoiceStrength, defeated |-> NilChoiceStrength]

\* ---------------------------------------------------------------- schulze_test.go

\* removedChoices: the choices of old that are not in new.
removedChoices(old, new) == Range(old) \ Range(new)

\* removeChoices: ballot b without the keys in removed.
removeChoices(b, removed) == [c \in (DOMAIN b) \ removed |-> b[c]]

\* An iteration order without the keys in removed.
removeFromOrder(order, removed) ==
    SelectSeq(order, LAMBDA c : c \notin removed)

\* ---------------------------------------------------------------- state

VARIABLES
    choices,        \* the choice sequence the caller passes (Voting.choices)
    preferences,    \* the preferences slice (Voting.preferences)
    records,        \* the Records returned by the successful Votes, in order
    unvoted,        \* the places in records that were given to Unvote
    hist,           \* the calls made so far that may write the preferences
    before,         \* the preferences before the last call
    beforeVote,     \* the preferences before the last Vote
    last,           \* the last call: its name, arguments and returned values
    updatedChoices, \* TestSetChoices: tc.updated
    validation,     \* TestSetChoices: validationPreferences
    results,        \* the results of the last Compute
    tie,            \* the tie flag of the last Compute
    strengths,      \* the strengths of the last Compute
    duels,          \* the DuelsIterator of the last Compute
    returned,       \* what the calls of that DuelsIterator returned, in order
    caller,         \* a caller of the package-level functions, beside a Voting
    ranked          \* the choices some successfully voted ballot ranks

vars == <<choices, preferences, records, unvoted, hist, before, beforeVote,
          last, updatedChoices, validation, results, tie, strengths, duels,
          returned, caller, ranked>>

\* The choice sequences of the model: without repetition.
ChoiceSeqs == DistinctSeqs(Choices)

\* The choice sequences a run starts from.
InitialChoices == {SubSeq(AllChoices, 1, n) : n \in 0..Len(AllChoices)}

\* The call record: the fields a call does not use are empty.
Call(op, ballot, record, index, current, err) ==
    [op |-> op, ballot |-> ballot, record |-> record, index |-> index,
     current |-> current, err |-> err]

NoCall == Call("none", <<>>, <<>>, 0, <<>>, NoError)

\* What a caller of the package-level functions holds: the choices it set
\* last, the preferences it threads, and what its last call returned.
Caller(callerChoices, callerPreferences, lastCall, callerResults, callerTie) ==
    [choices |-> callerChoices, preferences |-> callerPreferences,
     last |-> lastCall, results |-> callerResults, tie |-> callerTie]

NoCaller == Caller(<<>>, <<>>, NoCall, <<>>, FALSE)

\* The number of calls named op made so far.
Calls(op) == Cardinality({p \in 1..Len(hist) : hist[p] = op})

\* ---------------------------------------------------------------- callers

Init ==
    /\ choices \in InitialChoices
    /\ preferences = NewPreferences(Len(choices))
    /\ records = <<>>
    /\ unvoted = {}
    /\ hist = <<>>
    /\ before = preferences
    /\ beforeVote = preferences
    /\ last = NoCall
    /\ updatedChoices = <<>>
    /\ validation = <<>>
    /\ results = <<>>
    /\ tie = FALSE
    /\ strengths = <<>>
    /\ duels = newDuelsIterator(<<>>, <<>>)
    /\ returned = <<>>
    /\ caller = NoCaller
    /\ ranked = {}

\* A caller votes ballot b; Go ranges over the ballot in the order `order`.
CallVote(b, order) ==
    /\ last.op # "Compute"
    /\ Len(hist) < MaxOps
    /\ Calls("Vote") + Calls("VoteFailed") < MaxVotes
    /\ \E v \in {Vote(preferences, choices, b, order)} :
          /\ preferences' = v.preferences
          /\ records' = IF v.err = NoError THEN Append(records, v.record)
                        ELSE records
          /\ hist' = Append(hist, IF v.err = NoError THEN "Vote" ELSE "VoteFailed")
          /\ last' = Call("Vote", b, v.record, 0, choices, v.err)
          /\ ranked' = IF v.err = NoError THEN ranked \cup DOMAIN b ELSE ranked
    /\ before' = preferences
    /\ beforeVote' = preferences
    /\ results' = <<>>
    /\ tie' = FALSE
    /\ strengths' = <<>>
    /\ UNCHANGED <<caller, duels, returned, choices, unvoted, updatedChoices,
                   validation>>

\* A caller unvotes the Record the n-th successful Vote returned.
CallUnvote(n) ==
    /\ last.op # "Compute"
    /\ Len(hist) < MaxOps
    /\ n \in (1..Len(records)) \ unvoted
    /\ \E u \in {Unvote(preferences, choices, records[n])} :
          /\ preferences' = u.preferences
          /\ last' = Call("Unvote", <<>>, records[n], n, choices, u.err)
    /\ unvoted' = unvoted \cup {n}
    /\ hist' = Append(hist, "Unvote")
    /\ before' = preferences
    /\ results' = <<>>
    /\ tie' = FALSE
    /\ strengths' = <<>>
    /\ UNCHANGED <<ranked, caller, duels, returned, choices, records,
                   beforeVote, updatedChoices, validation>>

\* A caller changes the choices and keeps the returned preferences.
CallSetChoices(updated) ==
    /\ last.op # "Compute"
    /\ Len(hist) < MaxOps
    /\ preferences' = SetChoices(preferences, choices, updated)
    /\ choices' = updated
    /\ hist' = Append(hist, "SetChoices")
    /\ last' = Call("SetChoices", <<>>, <<>>, 0, choices, NoError)
    /\ before' = preferences
    /\ results' = <<>>
    /\ tie' = FALSE
    /\ strengths' = <<>>
    /\ UNCHANGED <<ranked, caller, duels, returned, records, unvoted,
                   beforeVote, updatedChoices, validation>>

\* A caller computes the results; it does so when it is done voting, as the
\* last call of a run.
CallCompute ==
    /\ last.op # "Compute"
    /\ \E c \in {Compute(preferences, choices)} :
          /\ results' = c.results
          /\ tie' = c.tie
          /\ strengths' = c.strengths
          /\ duels' = newDuelsIterator(choices, c.strengths)
          /\ preferences' = c.preferences
    /\ returned' = <<>>
    /\ last' = Call("Compute", <<>>, <<>>, 0, choices, NoError)
    /\ before' = preferences
    /\ UNCHANGED <<ranked, caller, choices, records, unvoted, hist, beforeVote,
                   updatedChoices, validation>>

Next ==
    \/ \E bo \in BallotOrders : CallVote(bo[1], bo[2])
    \/ \E n \in 1..MaxOps : CallUnvote(n)
    \/ \E updated \in ChoiceSeqs : CallSetChoices(updated)
    \/ CallCompute

Spec == Init /\ [][Next]_vars

\* ---------------------------------------------------------------- voting.go

\* A Voting holds choices and preferences; NewVoting(choices) is Init. The
\* methods call the functions above on the two fields.

\* The run-time panic of indexing a slice out of range. It ends the run:
\* nothing is called after it, and what was written before it is of no
\* interest.
IndexOutOfRange == <<"index out of range">>

Panics(cells) == ~(cells \subseteq DOMAIN preferences)

Panic(op) ==
    /\ last' = Call(op, <<>>, <<>>, 0, choices, IndexOutOfRange)
    /\ hist' = Append(hist, "Panic")
    /\ before' = preferences
    /\ UNCHANGED <<ranked, caller, duels, returned, choices, preferences,
                   records, unvoted, beforeVote,
                   updatedChoices, validation, results, tie, strengths>>

\* func (v *Voting[C]) Vote(b Ballot[C]) (Record[C], error)
VotingVote(b, order) ==
    /\ last.err # IndexOutOfRange
    /\ last.op # "Compute"
    /\ Len(hist) < MaxOps
    /\ Calls("Vote") + Calls("VoteFailed") < MaxVotes
    /\ IF Panics(voteCells(choices, b, order))
       THEN Panic("Vote")
       ELSE CallVote(b, order)

\* func (v *Voting[C]) Unvote(r Record[C]) error
VotingUnvote(n) ==
    /\ last.err # IndexOutOfRange
    /\ last.op # "Compute"
    /\ Len(hist) < MaxOps
    /\ n \in (1..Len(records)) \ unvoted
    /\ IF Panics(unvoteCells(choices, records[n]))
       THEN Panic("Unvote")
       ELSE CallUnvote(n)

\* func (v *Voting[C]) SetChoices(updated []C): the preferences field is
\* assigned, the choices field is not.
VotingSetChoices(updated) ==
    /\ last.err # IndexOutOfRange
    /\ last.op # "Compute"
    /\ Len(hist) < MaxOps
    /\ IF Panics(setChoicesCells(choices, updated))
       THEN Panic("SetChoices")
       ELSE /\ preferences' = SetChoices(preferences, choices, updated)
            /\ hist' = Append(hist, "SetChoices")
            /\ last' = Call("SetChoices", <<>>, <<>>, 0, choices, NoError)
            /\ before' = preferences
            /\ results' = <<>>
            /\ tie' = FALSE
            /\ strengths' = <<>>
            /\ UNCHANGED <<ranked, caller, duels, returned, choices, records,
                           unvoted, beforeVote, validation>>
    /\ updatedChoices' = updated

\* func (v *Voting[C]) Compute(): the first loop of
\* calculatePairwiseStrengths reads every cell below len(choices)^2.
VotingCompute ==
    /\ last.err # IndexOutOfRange
    /\ last.op # "Compute"
    /\ IF Panics(DOMAIN NewPreferences(Len(choices)))
       THEN Panic("Compute")
       ELSE CallCompute

NextVoting ==
    \/ \E bo \in BallotOrders : VotingVote(bo[1], bo[2])
    \/ \E n \in 1..MaxOps : VotingUnvote(n)
    \/ \E updated \in ChoiceSeqs : VotingSetChoices(updated)
    \/ VotingCompute

SpecVoting == Init /\ [][NextVoting]_vars

\* ---------------------------------------------------------------- Voting beside a caller

\* A Voting and a caller of the package-level functions are given the same
\* calls. The caller threads the preferences returned and passes the choices
\* it set last. The calls go on as long as the two have returned the same
\* and hold the same preferences; the Records of the Voting are then those
\* of the caller too.
Agree ==
    /\ preferences = caller.preferences
    /\ last.record = caller.last.record
    /\ last.err = caller.last.err
    /\ results = caller.results
    /\ tie = caller.tie

InitWrapper ==
    /\ choices \in InitialChoices
    /\ preferences = NewPreferences(Len(choices))
    /\ records = <<>>
    /\ unvoted = {}
    /\ hist = <<>>
    /\ before = preferences
    /\ beforeVote = preferences
    /\ last = NoCall
    /\ updatedChoices = <<>>
    /\ validation = <<>>
    /\ results = <<>>
    /\ tie = FALSE
    /\ strengths = <<>>
    /\ duels = newDuelsIterator(<<>>, <<>>)
    /\ returned = <<>>
    /\ caller = Caller(choices, preferences, NoCall, <<>>, FALSE)
    /\ ranked = {}

WrapperVote(b, order) ==
    /\ Agree
    /\ last.op # "Compute"
    /\ Len(hist) < MaxOps
    /\ Calls("Vote") + Calls("VoteFailed") < MaxVotes
    /\ IF Panics(voteCells(choices, b, order))
       THEN /\ last' = Call("Vote", <<>>, <<>>, 0, choices, IndexOutOfRange)
            /\ hist' = Append(hist, "Panic")
            /\ UNCHANGED <<preferences, records, ranked>>
       ELSE \E v \in {Vote(preferences, choices, b, order)} :
               /\ preferences' = v.preferences
               /\ records' = IF v.err = NoError THEN Append(records, v.record)
                             ELSE records
               /\ hist' = Append(hist, IF v.err = NoError THEN "Vote"
                                       ELSE "VoteFailed")
               /\ last' = Call("Vote", b, v.record, 0, choices, v.err)
               /\ ranked' = IF v.err = NoError THEN ranked \cup DOMAIN b
                             ELSE ranked
    /\ \E v \in {Vote(caller.preferences, caller.choices, b, order)} :
          caller' = Caller(caller.choices, v.preferences,
                           Call("Vote", b, v.record, 0, caller.choices, v.err),
                           <<>>, FALSE)
    /\ before' = preferences
    /\ beforeVote' = preferences
    /\ results' = <<>>
    /\ tie' = FALSE
    /\ strengths' = <<>>
    /\ UNCHANGED <<choices, unvoted, updatedChoices, validation, duels,
                   returned>>

WrapperUnvote(n) ==
    /\ Agree
    /\ last.op # "Compute"
    /\ Len(hist) < MaxOps
    /\ n \in (1..Len(records)) \ unvoted
    /\ IF Panics(unvoteCells(choices, records[n]))
       THEN /\ last' = Call("Unvote", <<>>, <<>>, 0, choices, IndexOutOfRange)
            /\ hist' = Append(hist, "Panic")
            /\ UNCHANGED preferences
       ELSE \E u \in {Unvote(preferences, choices, records[n])} :
               /\ preferences' = u.preferences
               /\ hist' = Append(hist, "Unvote")
               /\ last' = Call("Unvote", <<>>, <<>>, n, choices, u.err)
    /\ \E u \in {Unvote(caller.preferences, caller.choices, records[n])} :
          caller' = Caller(caller.choices, u.preferences,
                           Call("Unvote", <<>>, <<>>, n, caller.choices, u.err),
                           <<>>, FALSE)
    /\ unvoted' = unvoted \cup {n}
    /\ before' = preferences
    /\ results' = <<>>
    /\ tie' = FALSE
    /\ strengths' = <<>>
    /\ UNCHANGED <<ranked, choices, records, beforeVote, updatedChoices,
                   validation,
                   duels, returned>>

WrapperSetChoices(updated) ==
    /\ Agree
    /\ last.op # "Compute"
    /\ Len(hist) < MaxOps
    /\ IF Panics(setChoicesCells(choices, updated))
       THEN /\ last' = Call("SetChoices", <<>>, <<>>, 0, choices, IndexOutOfRange)
            /\ hist' = Append(hist, "Panic")
            /\ UNCHANGED preferences
       ELSE /\ preferences' = SetChoices(preferences, choices, updated)
            /\ hist' = Append(hist, "SetChoices")
            /\ last' = Call("SetChoices", <<>>, <<>>, 0, choices, NoError)
    /\ caller' = Caller(updated,
                        SetChoices(caller.preferences, caller.choices, updated),
                        Call("SetChoices", <<>>, <<>>, 0, caller.choices, NoError),
                        <<>>, FALSE)
    /\ updatedChoices' = updated
    /\ before' = preferences
    /\ results' = <<>>
    /\ tie' = FALSE
    /\ strengths' = <<>>
    /\ UNCHANGED <<ranked, choices, records, unvoted, beforeVote, validation,
                   duels,
                   returned>>

WrapperCompute ==
    /\ Agree
    /\ last.op # "Compute"
    /\ IF Panics(DOMAIN NewPreferences(Len(choices)))
       THEN /\ last' = Call("Compute", <<>>, <<>>, 0, choices, IndexOutOfRange)
            /\ UNCHANGED <<results, tie, strengths, duels>>
       ELSE /\ \E c \in {Compute(preferences, choices)} :
                  /\ results' = c.results
                  /\ tie' = c.tie
                  /\ strengths' = c.strengths
                  /\ duels' = newDuelsIterator(choices, c.strengths)
            /\ last' = Call("Compute", <<>>, <<>>, 0, choices, NoError)
    /\ \E c \in {Compute(caller.preferences, caller.choices)} :
          caller' = Caller(caller.choices, c.preferences,
                           Call("Compute", <<>>, <<>>, 0, caller.choices, NoError),
                           c.results, c.tie)
    /\ before' = preferences
    /\ UNCHANGED <<ranked, choices, preferences, records, unvoted, hist,
                   beforeVote,
                   updatedChoices, validation, returned>>

NextWrapper ==
    \/ \E bo \in BallotOrders : WrapperVote(bo[1], bo[2])
    \/ \E n \in 1..MaxOps : WrapperUnvote(n)
    \/ \E updated \in ChoiceSeqs : WrapperSetChoices(updated)
    \/ WrapperCompute

SpecWrapper == InitWrapper /\ [][NextWrapper]_vars

\* ---------------------------------------------------------------- Votes alone

\* The preferences the votes below start from: all cells 0, one cell MaxCell
\* and the others 0, or all cells MaxCell.
StartPreferences(n) ==
    {[k \in 0..(n * n - 1) |-> IF k \in S THEN MaxCell ELSE 0] :
        S \in {{}, 0..(n * n - 1)} \cup {{c} : c \in 0..(n * n - 1)}}

InitVotes ==
    /\ choices \in InitialChoices
    /\ preferences \in StartPreferences(Len(choices))
    /\ records = <<>>
    /\ unvoted = {}
    /\ hist = <<>>
    /\ before = preferences
    /\ beforeVote = preferences
    /\ last = NoCall
    /\ updatedChoices = <<>>
    /\ validation = <<>>
    /\ results = <<>>
    /\ tie = FALSE
    /\ strengths = <<>>
    /\ duels = newDuelsIterator(<<>>, <<>>)
    /\ returned = <<>>
    /\ caller = NoCaller
    /\ ranked = {}

NextVotes == \E bo \in BallotOrders : CallVote(bo[1], bo[2])

SpecVotes == InitVotes /\ [][NextVotes]_vars

\* ---------------------------------------------------------------- duplicate choices

\* The choice sequences in which some value stands at several positions.
DuplicateChoices ==
    {c \in UNION {[1..n -> Choices] : n \in 2..Len(AllChoices)} :
        Cardinality(Range(c)) < Len(c)}

InitDuplicates ==
    /\ choices \in DuplicateChoices
    /\ preferences = NewPreferences(Len(choices))
    /\ records = <<>>
    /\ unvoted = {}
    /\ hist = <<>>
    /\ before = preferences
    /\ beforeVote = preferences
    /\ last = NoCall
    /\ updatedChoices = <<>>
    /\ validation = <<>>
    /\ results = <<>>
    /\ tie = FALSE
    /\ strengths = <<>>
    /\ duels = newDuelsIterator(<<>>, <<>>)
    /\ returned = <<>>
    /\ caller = NoCaller
    /\ ranked = {}

NextDuplicates ==
    \/ \E bo \in BallotOrders : CallVote(bo[1], bo[2])
    \/ CallCompute

SpecDuplicates == InitDuplicates /\ [][NextDuplicates]_vars

\* ---------------------------------------------------------------- Compute alone

\* The choices Compute is tried on: one more than the callers above use, so
\* that a strongest path may pass through two other choices.
ComputeChoices == <<"A", "B", "C", "D">>

\* Every preferences slice over up to three choices with off-diagonal cells
\* in 0..MaxCell and diagonal cells 0 or MaxCell.
AnyPreferences(n) ==
    {[k \in 0..(n * n - 1) |->
         IF k \div n = k % n THEN d[k \div n] ELSE o[<<k \div n, k % n>>]] :
        o \in [{x \in (0..(n - 1)) \X (0..(n - 1)) : x[1] # x[2]} -> 0..MaxCell],
        d \in [0..(n - 1) -> {0, MaxCell}]}

\* How one pair of choices may stand in the preferences below: level, or one
\* side ahead by w to nothing.
Duels == {<<0, 0>>} \cup UNION {{<<w, 0>>, <<0, w>>} : w \in 1..MaxCell}

\* Every preferences slice over four choices in which each pair stands as
\* one of Duels and the diagonal is zero.
DuelPreferences(n) ==
    {[k \in 0..(n * n - 1) |->
         IF k \div n = k % n THEN 0
         ELSE IF k \div n < k % n THEN o[<<k \div n, k % n>>][1]
         ELSE o[<<k % n, k \div n>>][2]] :
        o \in [{x \in (0..(n - 1)) \X (0..(n - 1)) : x[1] < x[2]} -> Duels]}

InitCompute ==
    /\ \E n \in 0..Len(ComputeChoices) :
           /\ choices = SubSeq(ComputeChoices, 1, n)
           /\ preferences \in IF n < Len(ComputeChoices) THEN AnyPreferences(n)
                              ELSE DuelPreferences(n)
    /\ records = <<>>
    /\ unvoted = {}
    /\ hist = <<>>
    /\ before = preferences
    /\ beforeVote = preferences
    /\ last = NoCall
    /\ updatedChoices = <<>>
    /\ validation = <<>>
    /\ results = <<>>
    /\ tie = FALSE
    /\ strengths = <<>>
    /\ duels = newDuelsIterator(<<>>, <<>>)
    /\ returned = <<>>
    /\ caller = NoCaller
    /\ ranked = {}

NextCompute == CallCompute

SpecCompute == InitCompute /\ [][NextCompute]_vars

\* ---------------------------------------------------------------- SetChoices alone

\* Any preferences over up to three choices: SetChoices is called once with
\* any sequence of distinct choices, and Compute on what is there.
InitRemap ==
    /\ choices \in InitialChoices
    /\ preferences \in AnyPreferences(Len(choices))
    /\ records = <<>>
    /\ unvoted = {}
    /\ hist = <<>>
    /\ before = preferences
    /\ beforeVote = preferences
    /\ last = NoCall
    /\ updatedChoices = <<>>
    /\ validation = <<>>
    /\ results = <<>>
    /\ tie = FALSE
    /\ strengths = <<>>
    /\ duels = newDuelsIterator(<<>>, <<>>)
    /\ returned = <<>>
    /\ caller = NoCaller
    /\ ranked = {}

RemapChoices(updated) ==
    /\ hist = <<>>
    /\ CallSetChoices(updated)

NextRemap ==
    \/ \E updated \in ChoiceSeqs : RemapChoices(updated)
    \/ CallCompute

SpecRemap == InitRemap /\ [][NextRemap]_vars

\* ---------------------------------------------------------------- duels

\* The caller of Compute calls the DuelsIterator it was given, and goes on
\* calling it after it has returned nil.
CallDuels ==
    /\ last.op = "Compute"
    /\ Cardinality({p \in 1..Len(returned) : returned[p] = NilDuel}) < MaxNilCalls
    /\ \E c \in {callDuelsIterator(duels)} :
          /\ duels' = c.iterator
          /\ returned' = Append(returned, c.duel)
          /\ choices' = c.iterator.choices
    /\ UNCHANGED <<ranked, preferences, records, unvoted, hist, before,
                   beforeVote, last, updatedChoices, validation, results, tie,
                   strengths, caller>>

NextDuels ==
    \/ CallCompute
    \/ CallDuels

SpecDuels == InitCompute /\ [][NextDuels]_vars

\* ---------------------------------------------------------------- TestSetChoices

\* The functional subtest: the ballots are voted on preferences for the
\* current choices and, without the removed choices, on validation
\* preferences for the updated choices; then SetChoices is called on the
\* former.
InitSetChoices ==
    /\ choices \in InitialChoices
    /\ updatedChoices \in ChoiceSeqs
    /\ preferences = NewPreferences(Len(choices))
    /\ validation = NewPreferences(Len(updatedChoices))
    /\ records = <<>>
    /\ unvoted = {}
    /\ hist = <<>>
    /\ before = preferences
    /\ beforeVote = preferences
    /\ last = NoCall
    /\ results = <<>>
    /\ tie = FALSE
    /\ strengths = <<>>
    /\ duels = newDuelsIterator(<<>>, <<>>)
    /\ returned = <<>>
    /\ caller = NoCaller
    /\ ranked = {}

\* One ballot of the test case; the test stops at a Vote error, and the
\* Records are dropped.
TestVote(b, order) ==
    /\ last.op # "SetChoices"
    /\ Len(hist) < MaxBallots
    /\ \E v \in {Vote(preferences, choices, b, order)} :
          /\ v.err = NoError
          /\ preferences' = v.preferences
    /\ \E removed \in {removedChoices(choices, updatedChoices)} :
          \E o \in Orders(removeChoices(b, removed)) :
              \E v \in {Vote(validation, updatedChoices,
                             removeChoices(b, removed), o)} :
                  /\ v.err = NoError
                  /\ validation' = v.preferences
    /\ hist' = Append(hist, "Vote")
    /\ last' = Call("Vote", b, <<>>, 0, choices, NoError)
    /\ ranked' = ranked \cup DOMAIN b
    /\ before' = preferences
    /\ beforeVote' = preferences
    /\ UNCHANGED <<caller, duels, returned, choices, records, unvoted,
                   updatedChoices, results, tie,
                   strengths>>

\* updatedPreferences := SetChoices(currentPreferences, tc.current, tc.updated)
TestSetChoices ==
    /\ last.op # "SetChoices"
    /\ preferences' = SetChoices(preferences, choices, updatedChoices)
    /\ choices' = updatedChoices
    /\ hist' = Append(hist, "SetChoices")
    /\ last' = Call("SetChoices", <<>>, <<>>, 0, choices, NoError)
    /\ before' = preferences
    /\ UNCHANGED <<ranked, caller, duels, returned, records, unvoted,
                   beforeVote, updatedChoices, validation,
                   results, tie, strengths>>

NextSetChoices ==
    \/ \E bo \in BallotOrders : TestVote(bo[1], bo[2])
    \/ TestSetChoices

SpecSetChoices == InitSetChoices /\ [][NextSetChoices]_vars

\* ---------------------------------------------------------------- claims

\* The cell (i, j) of a preferences slice m over n choices.
Cell(m, n, i, j) == m[i * n + j]


\* The last two calls were a successful Vote and the Unvote of its Record.
VoteThenUnvote ==
    /\ last.op = "Unvote"
    /\ Len(hist) >= 2
    /\ hist[Len(hist) - 1] = "Vote"
    /\ last.index = Len(records)

\* C1: a Vote immediately followed by Unvote with the Record that Vote
\* returned leaves every cell of the preferences, the diagonal included,
\* equal to its value before the Vote.
C1_RoundTrip == VoteThenUnvote => preferences = beforeVote

\* The run was Vote, SetChoices, Unvote of the Record of that Vote, from zero
\* preferences.
VoteSetUnvote ==
    /\ hist = <<"Vote", "SetChoices", "Unvote">>
    /\ last.op = "Unvote"

\* C3: from zero preferences, Vote, then SetChoices, then Unvote with the
\* Record of that Vote returns no error and leaves every cell zero.
C3_UnvoteAfterSetChoices ==
    VoteSetUnvote =>
        /\ last.err = NoError
        /\ preferences = NewPreferences(Len(choices))

\* The last call was a Vote that returned no error.
Voted == last.op = "Vote" /\ last.err = NoError

\* Choice index i gains a vote against choice index j from ballot b: i is in
\* the ballot and j is not, or has a greater rank number.
Prefers(b, i, j) ==
    /\ choices[i + 1] \in DOMAIN b
    /\ \/ choices[j + 1] \notin DOMAIN b
       \/ b[choices[i + 1]] < b[choices[j + 1]]

\* C5: a successful Vote adds exactly 1 to the off-diagonal cell (i, j) when
\* choice i is in the ballot and choice j is not in it or has a greater rank
\* number, and leaves every other off-diagonal cell unchanged.
C5_VoteEffect ==
    Voted =>
        \A i, j \in 0..(Len(choices) - 1) :
            i # j =>
                Cell(preferences, Len(choices), i, j)
                    = Cell(before, Len(choices), i, j)
                      + (IF Prefers(last.ballot, i, j) THEN 1 ELSE 0)

\* C5 witness: a Vote on preferences that are not zero, with a ballot over
\* three choices that gives two of them the same rank and leaves one out.
C5_Witness ==
    /\ Voted
    /\ Len(choices) = 3
    /\ before # NewPreferences(3)
    /\ \E c, d \in DOMAIN last.ballot :
           c # d /\ last.ballot[c] = last.ballot[d]
    /\ Cardinality(DOMAIN last.ballot) = 2

\* Choice index c is preferred to every other choice in the preferences.
CondorcetWinner(c) ==
    \A j \in 0..(Len(choices) - 1) :
        j # c => Cell(preferences, Len(choices), c, j)
                     > Cell(preferences, Len(choices), j, c)

\* Compute was called on preferences that Votes alone built from zero.
ComputedAfterVotes ==
    /\ last.op = "Compute"
    /\ \A p \in 1..Len(hist) : hist[p] \in {"Vote", "VoteFailed"}

\* C10: when Votes alone built the preferences over N >= 2 choices and a
\* choice c is preferred to every other choice, Compute returns c first,
\* with N-1 wins and no tie.
C10_Condorcet ==
    (ComputedAfterVotes /\ Len(choices) >= 2) =>
        \A c \in 0..(Len(choices) - 1) :
            CondorcetWinner(c) =>
                /\ results[1].Index = c
                /\ results[1].Choice = choices[c + 1]
                /\ results[1].Wins = Len(choices) - 1
                /\ tie = FALSE

\* C10 witness: two ballots over three choices make the last choice the
\* Condorcet winner.
C10_Witness ==
    /\ ComputedAfterVotes
    /\ hist = <<"Vote", "Vote">>
    /\ Len(choices) = 3
    /\ CondorcetWinner(2)
    /\ Cell(preferences, 3, 0, 1) > 0

Computed == last.op = "Compute"

N == Len(choices)

\* The weight of the edge from a to b: the preference of a over b when it is
\* the greater of the two, and nothing otherwise.
EdgeWeight(a, b) ==
    IF Cell(preferences, N, a, b) > Cell(preferences, N, b, a)
    THEN Cell(preferences, N, a, b) ELSE 0

\* The sequences of two or more distinct choice indexes below n.
PathsBelow == [n \in 0..Len(ComputeChoices) |->
                  {p \in DistinctSeqs(0..(n - 1)) : Len(p) >= 2}]

\* The weakest edge of path p.
PathStrength(p) ==
    CHOOSE w \in {EdgeWeight(p[q], p[q + 1]) : q \in 1..(Len(p) - 1)} :
        \A q \in 1..(Len(p) - 1) : w <= EdgeWeight(p[q], p[q + 1])

\* The strength of the strongest path from i to j.
StrongestPath(i, j) ==
    CHOOSE w \in {PathStrength(p) :
                     p \in {q \in PathsBelow[N] : q[1] = i /\ q[Len(q)] = j}} :
        \A p \in PathsBelow[N] :
            (p[1] = i /\ p[Len(p)] = j) => PathStrength(p) <= w

\* C6: after Compute, for every ordered pair of distinct choices i and j the
\* strength S[i][j] is the maximum, over all directed paths from i to j, of
\* the minimum edge weight on the path, where the edge a->b weighs M[a][b] if
\* M[a][b] > M[b][a] and 0 otherwise.
C6_StrongestPaths ==
    Computed =>
        \A i, j \in 0..(N - 1) :
            i # j => Cell(strengths, N, i, j) = StrongestPath(i, j)

\* A strongest path that is stronger than the direct edge and passes through
\* two other choices, each one-choice detour being weaker.
C6_Witness ==
    /\ Computed
    /\ N = 4
    /\ \E i, j \in 0..3 :
           /\ i # j
           /\ Cell(strengths, N, i, j) = MaxCell
           /\ \A p \in PathsBelow[N] :
                  (p[1] = i /\ p[Len(p)] = j /\ Len(p) < 4)
                      => PathStrength(p) < MaxCell

\* The choices that i wins against, by the strengths.
WonBy(i) == {j \in 0..(N - 1) : j # i /\ Cell(strengths, N, i, j)
                                           > Cell(strengths, N, j, i)}

\* C7: Compute returns exactly one Result per choice index i in [0, N), with
\* Choice = choices[i], Index = i, Wins = the number of j # i with
\* S[i][j] > S[j][i], Strength = the sum of S[i][j] over those j, and
\* Advantage = the sum of S[i][j] - S[j][i] over those j.
C7_OneResultPerChoice ==
    Computed =>
        /\ Len(results) = N
        /\ \A i \in 0..(N - 1) :
               \E p \in 1..Len(results) :
                   /\ results[p].Index = i
                   /\ \A q \in 1..Len(results) : results[q].Index = i => q = p
                   /\ results[p].Choice = choices[i + 1]
                   /\ results[p].Wins = Cardinality(WonBy(i))
                   /\ results[p].Strength =
                          Sum([j \in 0..(N - 1) |->
                                  IF j \in WonBy(i) THEN Cell(strengths, N, i, j)
                                  ELSE 0], 0..(N - 1))
                   /\ results[p].Advantage =
                          Sum([j \in 0..(N - 1) |->
                                  IF j \in WonBy(i)
                                  THEN Cell(strengths, N, i, j)
                                       - Cell(strengths, N, j, i)
                                  ELSE 0], 0..(N - 1))

\* Results whose Advantage is less than their Strength, placed out of index
\* order.
C7_Witness ==
    /\ Computed
    /\ N >= 3
    /\ \E p \in 1..Len(results) :
           /\ results[p].Index # p - 1
           /\ results[p].Wins >= 2
           /\ results[p].Advantage > 0
           /\ results[p].Advantage < results[p].Strength

\* C8: the results of Compute are ordered by Wins descending, then by
\* Strength descending, then by Index ascending: every pair of adjacent
\* results is in this lexicographic order.
C8_ResultsOrdered ==
    Computed =>
        \A p \in 1..(Len(results) - 1) :
            \/ results[p].Wins > results[p + 1].Wins
            \/ /\ results[p].Wins = results[p + 1].Wins
               /\ results[p].Strength > results[p + 1].Strength
            \/ /\ results[p].Wins = results[p + 1].Wins
               /\ results[p].Strength = results[p + 1].Strength
               /\ results[p].Index < results[p + 1].Index

\* Each of the three keys decides the order of some adjacent pair, the first
\* two against the order of the indexes.
C8_Witness ==
    /\ Computed
    /\ \E p \in 1..(Len(results) - 1) :
           /\ results[p].Wins > results[p + 1].Wins
           /\ results[p].Index > results[p + 1].Index
    /\ \E p \in 1..(Len(results) - 1) :
           /\ results[p].Wins = results[p + 1].Wins
           /\ results[p].Strength > results[p + 1].Strength
           /\ results[p].Index > results[p + 1].Index
    /\ \E p \in 1..(Len(results) - 1) :
           /\ results[p].Wins = results[p + 1].Wins
           /\ results[p].Strength = results[p + 1].Strength

\* The greatest number of wins among the choices, by the strengths.
MostWins == CHOOSE w \in {Cardinality(WonBy(i)) : i \in 0..(N - 1)} :
                \A i \in 0..(N - 1) : Cardinality(WonBy(i)) <= w

\* C9: the tie flag of Compute is true iff there are at least two choices and
\* the first two results have equal Wins, that is iff the greatest win count
\* is attained by more than one choice; when tie is false, the first result
\* has strictly more Wins than every other, whatever the Strength and
\* Advantage values are.
C9_Tie ==
    Computed =>
        /\ tie = (N >= 2 /\ results[1].Wins = results[2].Wins)
        /\ N >= 1 =>
               tie = (Cardinality({i \in 0..(N - 1) :
                                      Cardinality(WonBy(i)) = MostWins}) > 1)
        /\ (~tie /\ N >= 1) =>
               \A p \in 2..Len(results) : results[1].Wins > results[p].Wins

\* No tie although the first result has no more Strength than the second.
C9_Witness ==
    /\ Computed
    /\ N >= 3
    /\ ~tie
    /\ results[1].Strength <= results[2].Strength
    /\ results[2].Strength > 0

\* A tie in which the first two results differ in Strength.
C9_WitnessTie ==
    /\ Computed
    /\ N >= 3
    /\ tie
    /\ results[1].Strength > results[2].Strength

Replayed == last.op = "SetChoices" /\ choices = updatedChoices

\* C4: SetChoices applied to the preferences built by voting all ballots
\* against the current choices equals, in every cell (the diagonal and the
\* rows and columns of added choices included), the preferences built from
\* zero by voting the same ballots, without the removed choices, against the
\* updated choices.
C4_ReplayEquivalence ==
    Replayed =>
        /\ DOMAIN preferences = DOMAIN validation
        /\ \A k \in DOMAIN validation : preferences[k] = validation[k]

\* Two ballots, one ranking every current choice and one not; one choice
\* removed, one added and the kept ones rearranged.
C4_Witness ==
    /\ Replayed
    /\ hist = <<"Vote", "Vote", "SetChoices">>
    /\ last.current = <<"A", "B">>
    /\ choices = <<"C", "A">>
    /\ Cell(before, 2, 0, 0) = 2
    /\ Cell(before, 2, 1, 1) = 1
    /\ Cell(preferences, 2, 1, 0) = 2

\* C2: Voting.SetChoices replaces the preferences and the choices together:
\* in every state of a Voting the preferences have len(choices)^2 cells for
\* the stored choices, and after SetChoices(updated) the stored choices are
\* the updated ones.
C2_SetChoicesReplacesBoth ==
    /\ len(preferences) = Len(choices) * Len(choices)
    /\ (last.op = "SetChoices" /\ last.err = NoError) => choices = updatedChoices

\* The keys of the ballot of the last Vote that are not among the choices.
UnknownKeys == (DOMAIN last.ballot) \ Range(choices)

\* C11: a Vote whose ballot contains a choice that is not in the choice
\* sequence returns a nil Record and an UnknownChoiceError whose Choice is a
\* key of the ballot absent from the sequence, and leaves every cell of the
\* preferences, the diagonal included, unchanged, even when the ballot also
\* names known choices.
C11_FailedVoteAtomic ==
    (last.op = "Vote" /\ UnknownKeys # {}) =>
        /\ last.record = <<>>
        /\ \E c \in UnknownKeys : last.err = UnknownChoiceError(c)
        /\ preferences = before

\* A failed Vote on preferences that hold votes, of a ballot that ranks a
\* known choice before the unknown one and another known choice after it.
C11_Witness ==
    /\ last.op = "Vote"
    /\ last.err = UnknownChoiceError("C")
    /\ choices = <<"A", "B">>
    /\ DOMAIN last.ballot = {"A", "B", "C"}
    /\ last.ballot["A"] < last.ballot["C"]
    /\ before # NewPreferences(2)

\* The tiers of Record r that hold choice c.
TiersOf(r, c) == {t \in 1..Len(r) : c \in Range(r[t])}

\* What Unvote of Record r takes from the cell of the choices a (row) and b
\* (column): the vote of a over b when both are in the Record and a is in an
\* earlier tier, the diagonal bookkeeping of a when a is in a tier before the
\* last, and the vote of such an a over a choice the Record does not hold.
UnvoteTakes(r, a, b) ==
    (IF \E t \in TiersOf(r, a) : \E u \in TiersOf(r, b) : t < u THEN 1 ELSE 0)
    + (IF a = b /\ \E t \in TiersOf(r, a) : t < Len(r) THEN 1 ELSE 0)
    + (IF TiersOf(r, b) = {} /\ \E t \in TiersOf(r, a) : t < Len(r)
       THEN 1 ELSE 0)

\* C12: Unvote never returns an error; the choices of the Record that are
\* absent from the current sequence are skipped, no cell changing on their
\* behalf, and an empty Record changes no cell.
C12_UnvoteNeverFails ==
    last.op = "Unvote" =>
        /\ last.err = NoError
        /\ \A i, j \in 0..(N - 1) :
               Cell(preferences, N, i, j) =
                   Cell(before, N, i, j)
                   - UnvoteTakes(last.record, choices[i + 1], choices[j + 1])
        /\ last.record = <<>> => preferences = before

\* An Unvote of a Record whose first and last tiers hold choices that were
\* removed, and that changes the cells of the choices that are left.
C12_Witness ==
    /\ last.op = "Unvote"
    /\ Len(last.record) = 3
    /\ choices = <<"B">>
    /\ last.record[1] = <<"A">>
    /\ last.record[2] = <<"B">>
    /\ last.record[3] = <<"C">>
    /\ preferences # before

\* An Unvote of an empty Record against choices that were added since.
C12_WitnessEmpty ==
    /\ last.op = "Unvote"
    /\ last.record = <<>>
    /\ Len(choices) >= 1

\* Record r read as a ballot: it ranks the choices as the ballot it was
\* returned for does, the choices that ballot left unranked coming last.
RecordBallot(r) ==
    [c \in UNION {Range(r[t]) : t \in 1..Len(r)} |->
        CHOOSE t \in 1..Len(r) : c \in Range(r[t])]

\* The choices of Record r in the order of its tiers.
RECURSIVE RecordOrder(_)
RecordOrder(r) == IF Len(r) = 0 THEN <<>> ELSE Head(r) \o RecordOrder(Tail(r))

\* The preferences after voting, from m, the ballots from the n-th on that
\* were not unvoted.
RECURSIVE VoteRemaining(_, _)
VoteRemaining(m, n) ==
    IF n > Len(records) THEN m
    ELSE IF n \in unvoted THEN VoteRemaining(m, n + 1)
    ELSE VoteRemaining(Vote(m, choices, RecordBallot(records[n]),
                            RecordOrder(records[n])).preferences, n + 1)

\* Votes and Unvotes alone were called, one Unvote at least.
Unvoted ==
    /\ unvoted # {}
    /\ \A p \in 1..Len(hist) : hist[p] \in {"Vote", "VoteFailed", "Unvote"}

\* C13: with the choices fixed, once the Record of a ballot is unvoted every
\* off-diagonal cell has the value it has when only the remaining ballots
\* are voted, and Compute returns the results and the tie flag it returns
\* for the remaining ballots alone.
C13_UnvoteCancelsBallot ==
    Unvoted =>
        \A remaining \in {VoteRemaining(NewPreferences(N), 1)} :
            /\ \A i, j \in 0..(N - 1) :
                   i # j => Cell(preferences, N, i, j) = Cell(remaining, N, i, j)
            /\ Computed =>
                   \A c \in {Compute(remaining, choices)} :
                       results = c.results /\ tie = c.tie

\* Two ballots voted, the first one of three tiers unvoted after the second
\* was voted, and a winner computed from the second.
C13_Witness ==
    /\ Unvoted
    /\ Computed
    /\ hist = <<"Vote", "Vote", "Unvote">>
    /\ unvoted = {1}
    /\ Len(records[1]) = 3
    /\ N = 3
    /\ ~tie
    /\ results[1].Index = 2

\* C14: for every N >= 0, NewPreferences(N) has N*N cells, all zero, and
\* Compute on it returns N results with Wins = Strength = Advantage = 0 in
\* ascending Index order, with tie = true iff N >= 2; for N = 0 the results
\* are empty and the duels iterator returns nil at once.
C14_FreshCompute ==
    preferences = NewPreferences(N) =>
        /\ len(preferences) = N * N
        /\ \A k \in DOMAIN preferences : preferences[k] = 0
        /\ Computed =>
               /\ Len(results) = N
               /\ \A p \in 1..Len(results) :
                      /\ results[p].Index = p - 1
                      /\ results[p].Wins = 0
                      /\ results[p].Strength = 0
                      /\ results[p].Advantage = 0
               /\ tie = (N >= 2)
               /\ N = 0 => /\ results = <<>>
                           /\ \A p \in 1..Len(returned) : returned[p] = NilDuel

\* Compute on fresh preferences for four choices.
C14_Witness ==
    /\ preferences = NewPreferences(N)
    /\ Computed
    /\ N = 4
    /\ tie

\* Compute on fresh preferences for no choices, and the iterator called.
C14_WitnessNoChoices ==
    /\ preferences = NewPreferences(N)
    /\ Computed
    /\ N = 0
    /\ Len(returned) >= 1

\* The index pairs i < j below N, and the one at place p in row-major order.
IndexPairs == {x \in (0..(N - 1)) \X (0..(N - 1)) : x[1] < x[2]}

PairAt(p) ==
    CHOOSE x \in IndexPairs :
        Cardinality({y \in IndexPairs :
                        y[1] < x[1] \/ (y[1] = x[1] /\ y[2] < x[2])}) = p - 1

\* C15: the DuelsIterator returned by Compute over N choices yields exactly
\* N(N-1)/2 duels, one for each index pair i < j in row-major order, with
\* Left the choice i carrying S[i][j] and Right the choice j carrying S[j][i];
\* after the last duel every further call returns nil, and for N <= 1 the
\* first call returns nil.
C15_DuelsInOrder ==
    Computed =>
        \A p \in 1..Len(returned) :
            IF p <= Cardinality(IndexPairs)
            THEN \A x \in {PairAt(p)} :
                     returned[p] =
                         [Left |-> [Choice |-> choices[x[1] + 1],
                                    Index |-> x[1],
                                    Strength |-> Cell(strengths, N, x[1], x[2])],
                          Right |-> [Choice |-> choices[x[2] + 1],
                                     Index |-> x[2],
                                     Strength |-> Cell(strengths, N, x[2], x[1])]]
            ELSE returned[p] = NilDuel

\* The six duels of four choices returned, with strengths that differ, and
\* then nil twice.
C15_Witness ==
    /\ Computed
    /\ N = 4
    /\ Len(returned) = 6 + MaxNilCalls
    /\ returned[6] # NilDuel
    /\ returned[6].Left.Strength # returned[6].Right.Strength
    /\ returned[3].Left.Strength # returned[4].Left.Strength
    /\ returned[8] = NilDuel

\* The 0-based place of choice c in the sequence current, which holds it.
PlaceIn(current, c) == (CHOOSE p \in 1..Len(current) : current[p] = c) - 1

\* C16: SetChoices returns preferences of len(updated)^2 cells in which the
\* cell of the updated choices a (row) and b (column) is the old M[a][b] when
\* a and b are both in the current sequence, the old diagonal M[a][a] when a
\* is in the current sequence and b is new, and 0 when a is new.
C16_SetChoicesCells ==
    last.op = "SetChoices" =>
        /\ len(preferences) = N * N
        /\ \A i, j \in 0..(N - 1) :
               \A a \in {choices[i + 1]} : \A b \in {choices[j + 1]} :
                   Cell(preferences, N, i, j) =
                       IF a \notin Range(last.current) THEN 0
                       ELSE IF b \in Range(last.current)
                            THEN Cell(before, Len(last.current),
                                      PlaceIn(last.current, a),
                                      PlaceIn(last.current, b))
                            ELSE Cell(before, Len(last.current),
                                      PlaceIn(last.current, a),
                                      PlaceIn(last.current, a))

\* The current choices A, B become C, B, A: one choice added in front and
\* the others rearranged, the old cells all different.
C16_Witness ==
    /\ last.op = "SetChoices"
    /\ last.current = <<"A", "B">>
    /\ choices = <<"C", "B", "A">>
    /\ Cardinality({before[k] : k \in DOMAIN before}) >= 3
    /\ Cell(before, 2, 0, 0) # Cell(before, 2, 1, 1)

\* C17: for any sequence of Vote, Unvote, SetChoices and Compute calls a
\* Voting returns the same Records, errors, results and tie flags, and holds
\* the same preferences, as the package-level functions applied by a caller
\* who threads the returned preferences and passes the choices set last.
C17_WrapperEquivalence == Agree

\* An order in which Go may range over ballot b.
AnOrder(b) == CHOOSE o \in Orders(b) : TRUE

\* A successful Vote follows a successful Vote.
VoteAfterVote ==
    /\ last.op = "Vote"
    /\ last.err = NoError
    /\ last'.op = "Vote"
    /\ last'.err = NoError
    /\ hist' # hist

\* C18: the order of Votes does not matter: voting two ballots on any
\* preferences yields in every cell what voting them the other way round
\* yields, so any order of a collection of ballots yields the same.
C18_VoteOrder ==
    [][VoteAfterVote =>
          \A second \in {Vote(before, choices, last'.ballot,
                              AnOrder(last'.ballot))} :
              /\ second.err = NoError
              /\ preferences' = Vote(second.preferences, choices, last.ballot,
                                     AnOrder(last.ballot)).preferences]_vars

\* Two ballots that rank the three choices in different ways were voted on
\* preferences that were not zero.
C18_Witness ==
    /\ hist = <<"Vote", "Vote">>
    /\ N = 3
    /\ records[1] # records[2]
    /\ Len(records[1]) = 3
    /\ Len(records[2]) = 2
    /\ \E k \in DOMAIN preferences : preferences[k] = MaxCell + 2
    /\ \E k \in DOMAIN preferences : preferences[k] = 0

\* The ballot of the last call gives every choice it lists the same rank.
AllSameRank == \A c, d \in DOMAIN last.ballot : last.ballot[c] = last.ballot[d]

\* C19: Vote returns an error exactly when the ballot has a key that is not
\* in the choice sequence. The empty ballot succeeds and changes no cell,
\* whatever the number of choices, zero included; a ballot that gives all the
\* choices it lists the same rank succeeds and changes no off-diagonal cell
\* between two listed choices.
C19_VoteErrors ==
    last.op = "Vote" =>
        /\ last.err # NoError <=> UnknownKeys # {}
        /\ DOMAIN last.ballot = {} =>
              /\ last.err = NoError
              /\ preferences = before
        /\ (AllSameRank /\ UnknownKeys = {}) =>
              /\ last.err = NoError
              /\ \A c, d \in DOMAIN last.ballot :
                    c # d => Cell(preferences, N, PlaceIn(choices, c), PlaceIn(choices, d))
                             = Cell(before, N, PlaceIn(choices, c), PlaceIn(choices, d))

\* After a Vote that failed and a SetChoices that made the choices three, a
\* ballot that gives two of them the same rank was voted and changed the
\* preferences.
C19_Witness ==
    /\ hist = <<"VoteFailed", "SetChoices", "Vote">>
    /\ N = 3
    /\ Cardinality(DOMAIN last.ballot) = 2
    /\ AllSameRank
    /\ last.err = NoError
    /\ preferences # before

\* The empty ballot was voted on no choices at all.
C19_WitnessNoChoices ==
    /\ last.op = "Vote"
    /\ N = 0
    /\ DOMAIN last.ballot = {}
    /\ last.err = NoError

\* The empty ballot was voted on three choices whose preferences hold a vote.
C19_WitnessEmpty ==
    /\ hist = <<"Vote", "Vote">>
    /\ N = 3
    /\ DOMAIN last.ballot = {}
    /\ \E k \in DOMAIN preferences : preferences[k] > 0

\* Index i holds a value that an earlier position of the choices holds too.
LaterDuplicate(i) == \E q \in 1..i : choices[q] = choices[i + 1]

\* Index i is the first position of its value.
FirstPosition(i) == ~LaterDuplicate(i)

\* Ballot b puts the value at index i before what stands at index j: the
\* value is ranked, and index j is a later duplicate, holds an unranked value
\* or holds a value of a greater rank number.
CreditedOver(b, i, j) ==
    /\ choices[i + 1] \in DOMAIN b
    /\ \/ LaterDuplicate(j)
       \/ choices[j + 1] \notin DOMAIN b
       \/ b[choices[i + 1]] < b[choices[j + 1]]

\* C20: when the choices hold a value at several positions only the first of
\* them receives votes. After successful Votes from zero preferences every
\* cell in the row of a later position of a value, the diagonal included, is
\* 0, and Compute gives that position no wins; a ballot that ranks the value
\* counts for the first position of the value against every position it puts
\* the value before, and against no other.
C20_DuplicateChoices ==
    /\ \A i, j \in 0..(N - 1) :
          LaterDuplicate(i) => Cell(preferences, N, i, j) = 0
    /\ Computed =>
          \A r \in 1..Len(results) :
              LaterDuplicate(results[r].Index) => results[r].Wins = 0
    /\ Voted =>
          \A i, j \in 0..(N - 1) :
              (FirstPosition(i) /\ i # j) =>
                  Cell(preferences, N, i, j)
                      = Cell(before, N, i, j)
                        + (IF CreditedOver(last.ballot, i, j) THEN 1 ELSE 0)

\* Two ballots that rank the value standing at the first and the last of three
\* positions, the second below another value, were voted.
C20_Witness ==
    /\ hist = <<"Vote", "Vote">>
    /\ Voted
    /\ N = 3
    /\ choices[1] = choices[3]
    /\ choices[2] # choices[1]
    /\ DOMAIN last.ballot = {choices[1], choices[2]}
    /\ last.ballot[choices[2]] < last.ballot[choices[1]]
    /\ Cell(preferences, N, 0, 2) = 2
    /\ Cell(preferences, N, 0, 1) = 1
    /\ Cell(preferences, N, 1, 0) = 1

\* Compute after such votes: the first position of the value has wins.
C20_WitnessCompute ==
    /\ Computed
    /\ hist = <<"Vote", "Vote">>
    /\ N = 3
    /\ choices[1] = choices[3]
    /\ choices[2] # choices[1]
    /\ \E r \in 1..Len(results) : results[r].Index = 0 /\ results[r].Wins = 2

\* The rank numbers ballot b uses.
RanksOf(b) == {b[c] : c \in DOMAIN b}

\* The n-th smallest rank number of ballot b.
NthRank(b, n) ==
    CHOOSE r \in RanksOf(b) : Cardinality({q \in RanksOf(b) : q < r}) = n - 1

\* The choices ballot b leaves out.
Unranked(b) == Range(choices) \ DOMAIN b

\* C21: the Record a successful Vote over distinct choices returns lists the
\* choice values in tiers by ascending rank number, exactly the choices of
\* one rank in one tier, followed by one last tier of exactly the choices
\* the ballot leaves out when there are any. No tier is empty and every
\* choice of the sequence is in exactly one tier, once.
C21_RecordTiers ==
    Voted =>
        /\ Len(last.record)
               = Cardinality(RanksOf(last.ballot))
                 + (IF Unranked(last.ballot) # {} THEN 1 ELSE 0)
        /\ \A t \in 1..Cardinality(RanksOf(last.ballot)) :
               Range(last.record[t])
                   = {c \in DOMAIN last.ballot :
                         last.ballot[c] = NthRank(last.ballot, t)}
        /\ Unranked(last.ballot) # {} =>
               Range(last.record[Len(last.record)]) = Unranked(last.ballot)
        /\ \A t \in 1..Len(last.record) : Len(last.record[t]) > 0
        /\ \A p \in 1..N :
               Cardinality({x \in Places(last.record) :
                               last.record[x[1]][x[2]] = choices[p]}) = 1

\* A ballot that gives two of three choices different ranks was voted: the
\* Record has a tier for each rank and a last tier for the third choice.
C21_Witness ==
    /\ Voted
    /\ N = 3
    /\ Cardinality(DOMAIN last.ballot) = 2
    /\ Cardinality(RanksOf(last.ballot)) = 2
    /\ Len(last.record) = 3
    /\ last.ballot[last.record[1][1]] < last.ballot[last.record[2][1]]

\* A ballot that gives all three choices one rank was voted: one tier.
C21_WitnessOneTier ==
    /\ Voted
    /\ N = 3
    /\ Cardinality(DOMAIN last.ballot) = 3
    /\ Cardinality(RanksOf(last.ballot)) = 1
    /\ Len(last.record) = 1

\* C22: Compute, and every call of the duels iterator it returns, leaves
\* every cell of the preferences and the choice sequence as they were when
\* Compute was called.
C22_ComputeReadOnly ==
    Computed =>
        /\ preferences = before
        /\ choices = last.current

\* Compute was called on preferences whose strengths differ from them, and
\* the iterator was called until it returned nil.
C22_Witness ==
    /\ Computed
    /\ N = 3
    /\ strengths # preferences
    /\ Len(returned) = 4
    /\ returned[4] = NilDuel
    /\ returned[3] # NilDuel

\* Only Votes and SetChoices were called, and no Unvote.
NoUnvote == \A p \in 1..Len(hist) : hist[p] \in {"Vote", "VoteFailed", "SetChoices"}

\* No cell is negative and no cell of a row exceeds the diagonal of the row.
DiagonalBounds ==
    \A i, j \in 0..(N - 1) :
        /\ 0 <= Cell(preferences, N, i, j)
        /\ Cell(preferences, N, i, j) <= Cell(preferences, N, i, i)

\* 1 when ballot b ranks the choice at index i, 0 otherwise.
Ranks(b, i) == IF choices[i + 1] \in DOMAIN b THEN 1 ELSE 0

\* C23: after successful Votes and SetChoices and no Unvote, from zero
\* preferences over distinct choices, every cell M[i][j] satisfies
\* 0 <= M[i][j] <= M[i][i]; and when only Votes were called M[i][i] is the
\* number of voted ballots that rank choice i: each successful Vote adds
\* one to the diagonal of exactly the choices its ballot ranks, so after one
\* ballot and after two the diagonal is their count.
C23_DiagonalBookkeeping ==
    [][/\ NoUnvote' => DiagonalBounds'
       /\ (Voted' /\ hist' # hist) =>
              \A i \in 0..(N - 1) :
                  Cell(preferences', N, i, i)
                      = Cell(preferences, N, i, i) + Ranks(last'.ballot, i)
       /\ (hist = <<>> /\ hist' = <<"Vote">>) =>
              \A i \in 0..(N - 1) :
                  Cell(preferences', N, i, i) = Ranks(last'.ballot, i)
       /\ (hist = <<"Vote">> /\ hist' = <<"Vote", "Vote">>) =>
              \A i \in 0..(N - 1) :
                  Cell(preferences', N, i, i)
                      = Ranks(last.ballot, i) + Ranks(last'.ballot, i)]_vars

\* Two ballots were voted on three choices, the first ranking all of them
\* and the second one of them, which has 2 on its diagonal.
C23_Witness ==
    /\ hist = <<"Vote", "Vote">>
    /\ N = 3
    /\ Len(records[1]) = 3
    /\ Cardinality(DOMAIN last.ballot) = 1
    /\ \E i \in 0..(N - 1) : Cell(preferences, N, i, i) = 2
    /\ \E i \in 0..(N - 1) : Cell(preferences, N, i, i) = 1

\* A Vote, a SetChoices that added a choice and a Vote: some row has a cell
\* equal to its diagonal and a cell below it.
C23_WitnessSetChoices ==
    /\ hist = <<"Vote", "SetChoices", "Vote">>
    /\ N = 3
    /\ \E i, j, k \in 0..(N - 1) :
           /\ i # j
           /\ i # k
           /\ Cell(preferences, N, i, i) = 2
           /\ Cell(preferences, N, i, j) = 2
           /\ Cell(preferences, N, i, k) = 0

\* The duels iterator d returns until the first nil.
RECURSIVE AllDuels(_)
AllDuels(d) ==
    Only({IF c.duel = NilDuel THEN <<>> ELSE <<c.duel>> \o AllDuels(c.iterator) :
          c \in {callDuelsIterator(d)}})

\* Preferences m with the diagonal cells of the choice indexes in S set to v.
WithDiagonal(m, S, v) ==
    [k \in DOMAIN m |-> IF k \div N = k % N /\ k \div N \in S THEN v ELSE m[k]]

\* The preferences that differ from the current ones in diagonal cells only:
\* every diagonal cell, or one of them, set to 0 or above every cell.
OtherDiagonals ==
    {WithDiagonal(preferences, S, v) :
        S \in {0..(N - 1)} \cup {{i} : i \in 0..(N - 1)},
        v \in {0, MaxCell + 1}} \ {preferences}

\* C24: Compute does not depend on the diagonal: for preferences that agree
\* with the computed ones in every off-diagonal cell and differ in diagonal
\* cells, Compute returns the same results, the same tie flag and an
\* iterator that returns the same duels.
C24_DiagonalIgnored ==
    Computed =>
        \A m \in OtherDiagonals :
            \A c \in {Compute(m, choices)} :
                /\ c.results = results
                /\ c.tie = tie
                /\ AllDuels(newDuelsIterator(choices, c.strengths))
                       = AllDuels(newDuelsIterator(choices, strengths))

\* Compute on preferences over three choices with a diagonal that is not
\* zero, where the results are not all alike.
C24_Witness ==
    /\ Computed
    /\ N = 3
    /\ \E i \in 0..(N - 1) : Cell(preferences, N, i, i) = MaxCell
    /\ \E i \in 0..(N - 1) : Cell(preferences, N, i, i) = 0
    /\ results[1].Wins = 2
    /\ results[2].Wins = 1
    /\ Cardinality(OtherDiagonals) >= 4

\* C25: the strengths calculated without the guards i = j, i = k and j = k,
\* with S[j][i] read once before the loop over k, are for distinct choices a
\* and b the strengths S[a][b] the guarded loops of the earlier revision
\* calculate, though diagonal cells of the strengths may be written.
C25_GuardsRemoved ==
    Computed =>
        \A guarded \in {calculatePairwiseStrengthsGuarded(N, preferences)} :
            \A a, b \in 0..(N - 1) :
                a # b => Cell(strengths, N, a, b) = Cell(guarded, N, a, b)

\* Compute on four choices where a diagonal cell of the strengths is not
\* zero and a strongest path is stronger than the direct preference.
C25_Witness ==
    /\ Computed
    /\ N = 4
    /\ \E a \in 0..(N - 1) : Cell(strengths, N, a, a) > 0
    /\ \E a, b \in 0..(N - 1) :
           /\ a # b
           /\ Cell(strengths, N, a, b) > Cell(preferences, N, a, b)

\* Choice index i beats choice index j: S[i][j] > S[j][i].
Beats(i, j) == Cell(strengths, N, i, j) > Cell(strengths, N, j, i)

\* The place of choice index i in the results.
PlaceOf(i) == CHOOSE p \in 1..Len(results) : results[p].Index = i

\* C26: the relation "i beats j", S[i][j] > S[j][i], that Compute calculates
\* is asymmetric and transitive; so when i beats j, i has more Wins than j,
\* and the results list no choice after a choice it beats.
C26_BeatsIsOrder ==
    Computed =>
        /\ \A i, j \in 0..(N - 1) : Beats(i, j) => ~Beats(j, i)
        /\ \A i, j, k \in 0..(N - 1) :
               (Beats(i, j) /\ Beats(j, k)) => Beats(i, k)
        /\ \A i, j \in 0..(N - 1) :
               Beats(i, j) =>
                   /\ results[PlaceOf(i)].Wins > results[PlaceOf(j)].Wins
                   /\ PlaceOf(i) < PlaceOf(j)

\* Compute on four choices where the choice of the last index beats all
\* others, one of them against the direct preference, and the others are
\* in a chain.
C26_Witness ==
    /\ Computed
    /\ N = 4
    /\ results[1].Index = 3
    /\ results[1].Wins = 3
    /\ results[2].Wins = 2
    /\ results[3].Wins = 1
    /\ \E j \in 0..(N - 1) :
           /\ Beats(3, j)
           /\ Cell(preferences, N, j, 3) > Cell(preferences, N, 3, j)

\* SetChoices was the last call.
Remapped == last.op = "SetChoices"

\* C27: for sequences of distinct choices, when every choice of current is
\* in updated, SetChoices back from updated to current gives in every cell
\* what the preferences held before SetChoices from current to updated; and
\* SetChoices from a sequence to itself changes no cell.
C27_LosslessRemap ==
    /\ last.op # "Compute" => SetChoices(preferences, choices, choices) = preferences
    /\ (Remapped /\ Range(last.current) \subseteq Range(choices)) =>
           SetChoices(preferences, choices, last.current) = before

\* Preferences over two choices with cells that are not alike were remapped
\* to three choices with the two swapped and a choice added before them.
C27_Witness ==
    /\ Remapped
    /\ Len(last.current) = 2
    /\ N = 3
    /\ choices[3] = last.current[1]
    /\ choices[2] = last.current[2]
    /\ Cell(before, 2, 0, 1) = MaxCell
    /\ Cell(before, 2, 1, 0) = 1
    /\ Cell(before, 2, 0, 0) = 0
    /\ Cell(before, 2, 1, 1) = MaxCell

\* The Result of choice c among the results rs, without its Index.
ResultFor(rs, c) ==
    Only({[Wins |-> r.Wins, Strength |-> r.Strength, Advantage |-> r.Advantage] :
          r \in {rs[p] : p \in {q \in 1..Len(rs) : rs[q].Choice = c}}})

\* Compute follows a SetChoices that rearranged the choices and neither
\* added nor removed one.
ComputeAfterRearranging ==
    /\ Remapped
    /\ last'.op = "Compute"
    /\ Range(last.current) = Range(choices)

\* C28: rearranging the choices does not change the outcome: Compute on the
\* preferences SetChoices made for a permutation of the choices gives every
\* choice the Wins, Strength and Advantage, and the tie flag, that Compute
\* gives on the preferences and choices before the SetChoices.
C28_RearrangedOutcome ==
    [][ComputeAfterRearranging =>
          \A c \in {Compute(before, last.current)} :
              /\ tie' = c.tie
              /\ Len(results') = Len(c.results)
              /\ \A x \in Range(choices) :
                     ResultFor(results', x) = ResultFor(c.results, x)]_vars

\* Compute after three choices, the preferences held from the start, were
\* put in another order: each has its own number of wins and the one of the
\* last index is first.
C28_Witness ==
    /\ Computed
    /\ hist = <<"SetChoices">>
    /\ N = 3
    /\ choices # SubSeq(AllChoices, 1, 3)
    /\ Cardinality(DOMAIN beforeVote) = N * N
    /\ results[1].Wins = 2
    /\ results[1].Index = 2
    /\ results[2].Wins = 1
    /\ results[1].Strength # results[1].Advantage

\* Compute follows a SetChoices that kept every choice and added some, on
\* preferences that Votes alone built from zero.
ComputeAfterAdding ==
    /\ Remapped
    /\ last'.op = "Compute"
    /\ hist[Len(hist)] = "SetChoices"
    /\ \A p \in 1..(Len(hist) - 1) : hist[p] \in {"Vote", "VoteFailed"}
    /\ Range(last.current) \subseteq Range(choices)
    /\ Range(last.current) # Range(choices)

\* C29: adding choices does not disturb the comparisons there are: for
\* preferences that Votes built from zero, after a SetChoices that only
\* adds choices the strength S[a][b] of every pair of choices that were
\* there before is what it was, every added choice has no wins, and a
\* choice that was there beats an added choice exactly when some voted
\* ballot ranks it.
C29_AddedChoices ==
    [][ComputeAfterAdding =>
          /\ \A old \in {calculatePairwiseStrengths(last.current, before)} :
                 \A a, b \in Range(last.current) :
                     a # b =>
                         Cell(strengths', N, PlaceIn(choices, a), PlaceIn(choices, b))
                             = Cell(old, Len(last.current),
                                    PlaceIn(last.current, a), PlaceIn(last.current, b))
          /\ \A x \in Range(choices) \ Range(last.current) :
                 /\ ResultFor(results', x).Wins = 0
                 /\ \A a \in Range(last.current) :
                        (Cell(strengths', N, PlaceIn(choices, a), PlaceIn(choices, x))
                             > Cell(strengths', N, PlaceIn(choices, x), PlaceIn(choices, a)))
                        <=> a \in ranked]_vars

\* Compute after two ballots on two choices, which rank one of them, and a
\* SetChoices that added a third: the ranked choice beats both others.
C29_Witness ==
    /\ Computed
    /\ hist = <<"Vote", "Vote", "SetChoices">>
    /\ N = 3
    /\ Cardinality(DOMAIN beforeVote) = 4
    /\ Cardinality(ranked) = 1
    /\ results[1].Wins = 2
    /\ results[1].Choice \in ranked
    /\ results[2].Wins = 0

\* Compute after two ballots that rank both of two choices differently and
\* a SetChoices that added a third before them.
C29_WitnessBothRanked ==
    /\ Computed
    /\ hist = <<"Vote", "Vote", "SetChoices">>
    /\ N = 3
    /\ Cardinality(DOMAIN beforeVote) = 4
    /\ Cardinality(ranked) = 2
    /\ results[1].Wins = 2
    /\ results[2].Wins = 1
    /\ results[3].Index = 0

\* The places of returned that hold a duel.
DuelPlaces == {p \in 1..Len(returned) : returned[p] # NilDuel}

\* The iterator has returned every duel and then nil.
AllDuelsReturned ==
    /\ Computed
    /\ Len(returned) > 0
    /\ returned[Len(returned)] = NilDuel

\* The places of returned that hold a duel the choice of index i wins.
DuelsWonBy(i) ==
    {p \in DuelPlaces :
        /\ Outcome(returned[p]).winner # NilChoiceStrength
        /\ Outcome(returned[p]).winner.Index = i}

\* C30: the duels agree with the results of the same Compute. Outcome names
\* as winner the side of strictly greater Strength, and no winner when the
\* strengths are equal; and for every choice the number of duels it wins is
\* the Wins of its Result, the sum of its strengths over those duels is its
\* Strength, and the sum of the differences of the strengths is its
\* Advantage.
C30_DuelsAgreeWithResults ==
    /\ \A p \in DuelPlaces :
           \A o \in {Outcome(returned[p])} :
               IF returned[p].Left.Strength = returned[p].Right.Strength
               THEN o.winner = NilChoiceStrength /\ o.defeated = NilChoiceStrength
               ELSE /\ {o.winner, o.defeated} = {returned[p].Left, returned[p].Right}
                    /\ o.winner.Strength > o.defeated.Strength
    /\ AllDuelsReturned =>
           \A r \in 1..Len(results) :
               \A won \in {DuelsWonBy(results[r].Index)} :
                   /\ Cardinality(won) = results[r].Wins
                   /\ Sum([p \in won |-> Outcome(returned[p]).winner.Strength], won)
                          = results[r].Strength
                   /\ Sum([p \in won |-> Outcome(returned[p]).winner.Strength
                                         - Outcome(returned[p]).defeated.Strength], won)
                          = results[r].Advantage

\* All six duels of four choices were returned: one was a tie, one was won
\* by the right side, and the first result has wins.
C30_Witness ==
    /\ AllDuelsReturned
    /\ N = 4
    /\ Cardinality(DuelPlaces) = 6
    /\ \E p \in DuelPlaces : Outcome(returned[p]).winner = NilChoiceStrength
    /\ \E p \in DuelPlaces : Outcome(returned[p]).winner = returned[p].Right
    /\ results[1].Wins = 2
    /\ results[1].Strength = 2 * MaxCell

\* All duels of three choices were returned: the first result has an
\* Advantage below its Strength.
C30_WitnessAdvantage ==
    /\ AllDuelsReturned
    /\ N = 3
    /\ Cardinality(DuelPlaces) = 3
    /\ results[1].Wins = 2
    /\ results[1].Advantage < results[1].Strength

====
